---- MODULE Spec2Model ----
(***************************************************************************)
(* Document processing orchestration of LegalDocumentAnalyzer:             *)
(*   shared/document_state_machine.py      DocumentState, DocumentStateMachine *)
(*   workflows/worker.py                   DocumentProcessingWorker        *)
(*   workflows/workflows/document_processing_workflow.py                   *)
(*                                         DocumentProcessingWorkflow      *)
(*   workflows/activities/document_activities.py  status activities        *)
(*   services/DocumentService/document_service.py DocumentService          *)
(*                                                                         *)
(* A Python Optional is modelled as a sequence of length 0 (None) or 1.    *)
(***************************************************************************)
EXTENDS Integers, Sequences, FiniteSets, TLC

None == <<>>
Some(x) == <<x>>

(***************************************************************************)
(* Bounds of the model.                                                    *)
(***************************************************************************)
\* Failed activity attempts the environment injects in one behaviour.
MaxFaults == 3

\* Document ids of start requests.  A document is stored in the database
\* of its Owner (InitShared: an id that two tenants store); UploadedDocs are
\* the ids the upload path has stored so far, the other ids name no document.
Docs == {"d1", "d2"}
UploadedDocs == {"d1"}
TenantList == <<"t1", "t2">>
Owner == [d \in Docs |-> IF d = "d1" THEN "t1" ELSE "t2"]
Users == {"u1", "u2"}
TenantIds == {TenantList[k] : k \in 1..Len(TenantList)}

(***************************************************************************)
(* shared/document_state_machine.py                                        *)
(***************************************************************************)
UPLOADED == "uploaded"
TEXT_EXTRACTING == "text_extracting"
TEXT_EXTRACTED == "text_extracted"
CHUNKING == "chunking"
CHUNKED == "chunked"
CLASSIFYING == "classifying"
CLASSIFIED == "classified"
VECTORIZING == "vectorizing"
VECTORIZED == "vectorized"
SUMMARIZING == "summarizing"
SUMMARIZED == "summarized"
COMPLETED == "completed"
FAILED == "failed"

DocumentState ==
    {UPLOADED, TEXT_EXTRACTING, TEXT_EXTRACTED, CHUNKING, CHUNKED, CLASSIFYING,
     CLASSIFIED, VECTORIZING, VECTORIZED, SUMMARIZING, SUMMARIZED, COMPLETED,
     FAILED}

ALLOWED_TRANSITIONS ==
    [s \in DocumentState |->
        CASE s = UPLOADED        -> {TEXT_EXTRACTING, FAILED}
          [] s = TEXT_EXTRACTING -> {TEXT_EXTRACTED, FAILED}
          [] s = TEXT_EXTRACTED  -> {CHUNKING, FAILED}
          [] s = CHUNKING        -> {CHUNKED, FAILED}
          [] s = CHUNKED         -> {CLASSIFYING, FAILED}
          [] s = CLASSIFYING     -> {CLASSIFIED, FAILED}
          [] s = CLASSIFIED      -> {VECTORIZING, FAILED}
          [] s = VECTORIZING     -> {VECTORIZED, FAILED}
          [] s = VECTORIZED      -> {SUMMARIZING, FAILED}
          [] s = SUMMARIZING     -> {SUMMARIZED, FAILED}
          [] s = SUMMARIZED      -> {COMPLETED}
          [] s = FAILED          -> {TEXT_EXTRACTING, CHUNKING, CLASSIFYING,
                                     VECTORIZING, SUMMARIZING}
          [] s = COMPLETED       -> {}]

\* Mutants of can_transition: every state but COMPLETED may fail; a state
\* may be written over itself; a state that may fail may go where FAILED may.
can_transition_AnyMayFail(from_state, to_state) ==
    \/ to_state \in ALLOWED_TRANSITIONS[from_state]
    \/ from_state # COMPLETED /\ to_state = FAILED

can_transition_SameState(from_state, to_state) ==
    \/ to_state \in ALLOWED_TRANSITIONS[from_state]
    \/ to_state = from_state

can_transition_ViaFailed(from_state, to_state) ==
    \/ to_state \in ALLOWED_TRANSITIONS[from_state]
    \/ FAILED \in ALLOWED_TRANSITIONS[from_state]
          /\ to_state \in ALLOWED_TRANSITIONS[FAILED]

\* ALLOWED_TRANSITIONS.get(from_state, []) ; to_state in allowed_transitions
can_transition(from_state, to_state) ==
    to_state \in (IF from_state \in DOMAIN ALLOWED_TRANSITIONS
                  THEN ALLOWED_TRANSITIONS[from_state] ELSE {})

\* retry_mapping of get_retry_state: step name -> state to retry from
retry_mapping ==
    [s \in {"text_extraction", "chunking", "classification", "vectorization",
            "summarization"} |->
        CASE s = "text_extraction" -> TEXT_EXTRACTING
          [] s = "chunking"        -> CHUNKING
          [] s = "classification"  -> CLASSIFYING
          [] s = "vectorization"   -> VECTORIZING
          [] s = "summarization"   -> SUMMARIZING]

\* How a call ends: it returns a value (None for no value) or raises.
Returns(value) == [raised |-> "", value |-> value]
Raises(exception) == [raised |-> exception, value |-> None]

\* Python values passed where the annotation says DocumentState: a member of
\* the enum, or a str.
Member(state) == [type |-> "DocumentState", value |-> state]
Str(text) == [type |-> "str", value |-> text]

\* Mutant of validate_transition: the check is left out.
validate_transition_NoCheck(from_state, to_state) == Returns(None)

\* validate_transition: raises InvalidStateTransitionError if not
\* can_transition, else falls off the end (returns None)
validate_transition(from_state, to_state) ==
    IF ~can_transition(from_state, to_state)
    THEN Raises("InvalidStateTransitionError")
    ELSE Returns(None)

\* is_processing_state: state in processing_states
is_processing_state(state) ==
    state \in {TEXT_EXTRACTING, CHUNKING, CLASSIFYING, VECTORIZING, SUMMARIZING}

\* Mutant of is_terminal_state: FAILED, which has transitions out of it, is
\* not counted as terminal.
is_terminal_state_OnlyCompleted(state) == state = COMPLETED

\* is_terminal_state: state in terminal_states
is_terminal_state(state) == state \in {COMPLETED, FAILED}

\* DocumentStateMachine.get_processing_step_for_state: the step name of a
\* processing state, None for any other state.
get_processing_step_for_state(state) ==
    CASE state = TEXT_EXTRACTING -> Some("text_extraction")
      [] state = CHUNKING        -> Some("chunking")
      [] state = CLASSIFYING     -> Some("classification")
      [] state = VECTORIZING     -> Some("vectorization")
      [] state = SUMMARIZING     -> Some("summarization")
      [] OTHER                   -> None

\* get_retry_state: FAILED gives None; otherwise retry_mapping.get of
\* failed_state.value.  A str is not equal to DocumentState.FAILED and has no
\* attribute value (AttributeError); the value of a member is its state name.
get_retry_state(failed_state) ==
    IF failed_state = Member(FAILED) THEN Returns(None)
    ELSE IF failed_state.type # "DocumentState" THEN Raises("AttributeError")
    ELSE IF failed_state.value \in DOMAIN retry_mapping
         THEN Returns(Some(retry_mapping[failed_state.value]))
         ELSE Returns(None)

(***************************************************************************)
(* The five stages of DocumentProcessingWorkflow.run, in call order.       *)
(***************************************************************************)
NumStages == 5
Stages == 1..NumStages

\* step= argument of each stage method and of its _handle_step_failure call
StepName(i) ==
    CASE i = 1 -> "text_extraction"
      [] i = 2 -> "chunking"
      [] i = 3 -> "classification"
      [] i = 4 -> "vectorization"
      [] i = 5 -> "summarization"

\* status written before the stage activity
EnteringState(i) ==
    CASE i = 1 -> TEXT_EXTRACTING
      [] i = 2 -> CHUNKING
      [] i = 3 -> CLASSIFYING
      [] i = 4 -> VECTORIZING
      [] i = 5 -> SUMMARIZING

\* status written after the stage activity
DoneState(i) ==
    CASE i = 1 -> TEXT_EXTRACTED
      [] i = 2 -> CHUNKED
      [] i = 3 -> CLASSIFIED
      [] i = 4 -> VECTORIZED
      [] i = 5 -> SUMMARIZED


(***************************************************************************)
(* Temporal call parameters used by the workflow and the worker.           *)
(***************************************************************************)
\* Mutants of StageMaximumAttempts: one attempt fewer, one more.
StageMaximumAttempts_Two == 1 + 1
StageMaximumAttempts_Four == 3 + 1

\* RetryPolicy(maximum_attempts=3) of the five stage activities
StageMaximumAttempts == 3

\* RetryPolicy(maximum_attempts=3) of _update_document_status
StatusMaximumAttempts == 3

\* Kinds of error a stage activity attempt can end with: a transient one
\* (I/O), a fatal one (UnsupportedFileTypeError, a ValueError of the stage's
\* service), ValueError("Tenant ... not found"), raised by the activity
\* before the stage's service is called, or the attempt running longer than
\* start_to_close_timeout, which Temporal ends with a timeout failure.
ErrorKinds == {"transient", "fatal", "tenant_not_found", "timeout"}

\* The RetryPolicy objects name no non_retryable_error_types and the
\* activities re-raise plain Python exceptions.
non_retryable_error_types == {}

\* Mutant of IsRetried: an attempt that timed out is not repeated.
IsRetried_TimeoutFatal(kind) ==
    kind # "timeout" /\ kind \notin non_retryable_error_types

\* Temporal re-attempts a failed activity unless its error is non-retryable;
\* a start-to-close timeout is always re-attempted.
IsRetried(kind) == kind = "timeout" \/ kind \notin non_retryable_error_types

\* The environment of the worker and its services: both limits of the
\* worker are set to 1, the least value a limit can take, and chunks are at
\* most two tokens long.
Environment ==
    [WORKER_MAX_CONCURRENT_ACTIVITIES |-> 1, WORKER_MAX_CONCURRENT_WORKFLOWS |-> 1,
     CHUNK_SIZE |-> 2]

\* int(os.getenv(name, default))
getenv(name, default) ==
    IF name \in DOMAIN Environment THEN Environment[name] ELSE default

\* WorkflowConfig: the configured limits.  worker.py does not import
\* WorkflowConfig, and Worker(...) is built without max_concurrent_*
\* arguments, so the worker runs under the Temporal SDK's own limits (in
\* the hundreds), which no state of this model reaches.
WORKER_MAX_CONCURRENT_ACTIVITIES == getenv("WORKER_MAX_CONCURRENT_ACTIVITIES", 10)
WORKER_MAX_CONCURRENT_WORKFLOWS == getenv("WORKER_MAX_CONCURRENT_WORKFLOWS", 5)

\* Mutant of WorkflowId: the id also depends on who made the request.
WorkflowId_PerRequest(input_data) ==
    <<"document-processing-", input_data.document_id, input_data.created_by>>

\* start_document_processing: id=f"document-processing-{input_data['document_id']}"
WorkflowId(input_data) == <<"document-processing-", input_data.document_id>>

\* Start requests: DocumentProcessingInput, reduced to the fields the
\* orchestration reads.
Inputs ==
    {[document_id |-> d, tenant_id |-> Owner[d], created_by |-> u] :
        d \in Docs, u \in Users}

WorkflowIds == {WorkflowId(i) : i \in Inputs}

(***************************************************************************)
(* State.                                                                  *)
(***************************************************************************)
VARIABLES
    client,     \* DocumentProcessingWorker.client is connected (start() ran)
    store,      \* per tenant database: document id -> Optional document row
    runs,       \* Temporal workflow executions by workflow id
    faults,     \* failed activity attempts so far
    rejected,   \* a start request was refused: its workflow id was running
    sm,         \* a call of a DocumentStateMachine method and how it ended
    svc         \* the tenant table, the ServiceFactory's cache, the blobs

vars == <<client, store, runs, faults, rejected, sm, svc>>

\* No call of a DocumentStateMachine method is under way.
NoCall == [op |-> "none", args |-> <<>>, out |-> None]

(***************************************************************************)
(* The service layer: the tenants table of TenantService and the           *)
(* ServiceFactory singleton with its per tenant DocumentService cache.     *)
(***************************************************************************)
\* The keyword arguments of TenantService.create_tenant besides the id.
TenantFields ==
    [name : {"Acme", "Beta"}, status : {"active", "suspended"},
     pinecone_index_name : {"idx-a", "idx-b"},
     pinecone_environment : {"us-east-1"},
     metadata : {None}]

\* Tenant(id=tenant_id, name=..., status=..., pinecone_...=...).
Tenant(tenant_id, fields) ==
    [id |-> tenant_id, name |-> fields.name, status |-> fields.status,
     pinecone_index_name |-> fields.pinecone_index_name,
     pinecone_environment |-> fields.pinecone_environment,
     metadata |-> IF fields.metadata # None THEN fields.metadata[1]
                  ELSE "{}"]

TenantRows == {Tenant(t, f) : t \in TenantIds, f \in TenantFields}

\* The scheme of DATABASE_URL: the tenants table is a PostgreSQL table.
DATABASE_URL == "postgresql"

\* str(e).lower() of the IntegrityError the database driver raises when an
\* INSERT repeats a primary key, word by word.
IntegrityErrorText(dialect) ==
    IF dialect = "postgresql"
    THEN <<"duplicate", "key", "value", "violates", "unique", "constraint">>
    ELSE <<"unique", "constraint", "failed">>

\* phrase in text
Contains(text, phrase) ==
    \E k \in 1..Len(text) :
        /\ k + Len(phrase) - 1 <= Len(text)
        /\ SubSeq(text, k, k + Len(phrase) - 1) = phrase

\* An exception raised with a message.
RaisesMessage(exception, message) ==
    [raised |-> exception, message |-> message, value |-> None]

\* session.query(Tenant).filter(Tenant.id == tenant_id).first()
get_tenant_by_id(tenants, tenant_id) ==
    IF \E row \in tenants : row.id = tenant_id
    THEN Some(CHOOSE row \in tenants : row.id = tenant_id)
    ELSE None

\* TenantRepository.create_tenant that adds the row whatever the table holds.
create_tenant_NoPrimaryKey(tenants, tenant) ==
    [tenants |-> tenants \cup {tenant}, out |-> Returns(Some(tenant))]

\* TenantRepository.create_tenant that replaces the row of the same id.
create_tenant_Merge(tenants, tenant) ==
    IF \E row \in tenants : row.id = tenant.id
    THEN [tenants |-> {row \in tenants : row.id # tenant.id} \cup {tenant},
          out |-> RaisesMessage("ValueError", <<"already", "exists">>)]
    ELSE [tenants |-> tenants \cup {tenant}, out |-> Returns(Some(tenant))]

\* TenantRepository.create_tenant: session.add and commit; the primary key
\* of the table refuses a second row of the same id, the session is rolled
\* back and the IntegrityError is turned into a ValueError when its text
\* holds "duplicate key", and raised again as it is otherwise.
create_tenant(tenants, tenant) ==
    IF \E row \in tenants : row.id = tenant.id
    THEN IF Contains(IntegrityErrorText(DATABASE_URL), <<"duplicate", "key">>)
         THEN [tenants |-> tenants,
               out |-> RaisesMessage("ValueError", <<"already", "exists">>)]
         ELSE [tenants |-> tenants,
               out |-> RaisesMessage("IntegrityError",
                                     IntegrityErrorText(DATABASE_URL))]
    ELSE [tenants |-> tenants \cup {tenant}, out |-> Returns(Some(tenant))]

\* TenantRepository.delete_tenant that suspends the tenant and keeps the row.
delete_tenant_Suspend(tenants, tenant_id) ==
    IF get_tenant_by_id(tenants, tenant_id) = None
    THEN [tenants |-> tenants, out |-> Returns(FALSE)]
    ELSE [tenants |-> {IF row.id = tenant_id
                       THEN [row EXCEPT !.status = "suspended"] ELSE row :
                       row \in tenants},
          out |-> Returns(TRUE)]

\* TenantRepository.delete_tenant: False when no row has the id.
delete_tenant(tenants, tenant_id) ==
    IF get_tenant_by_id(tenants, tenant_id) = None
    THEN [tenants |-> tenants, out |-> Returns(FALSE)]
    ELSE [tenants |-> {row \in tenants : row.id # tenant_id},
          out |-> Returns(TRUE)]

\* TenantRepository.tenant_exists: the query for the id finds a row.
tenant_exists(tenants, tenant_id) ==
    get_tenant_by_id(tenants, tenant_id) # None

\* The **kwargs of update_tenant: any of the keys, each with a value; for
\* each validated field one value that passes its validation and one that
\* fails it.
UpdateKwargs ==
    LET UpdateValues ==
    [id |-> {"t9"},
     name |-> {"Gamma", ""},
     status |-> {"inactive", "invalid-status"},
     pinecone_index_name |-> {"idx-c", "INVALID-INDEX"},
     pinecone_environment |-> {"eu-west-1"},
     metadata |-> {"{'plan': 'pro'}"}]
    IN
    UNION {{kwargs \in [keys -> UNION {UpdateValues[k] : k \in keys}] :
               \A k \in keys : kwargs[k] \in UpdateValues[k]} :
           keys \in SUBSET DOMAIN UpdateValues}

\* Tenant._validate_name: the name is not empty.
validate_name(name) == name # ""

\* Tenant._validate_status.
validate_status(status) == status \in {"active", "inactive", "suspended"}

\* Tenant._validate_pinecone_config: lower case index names only.
validate_pinecone_config(index_name, environment) ==
    index_name \in {"idx-a", "idx-b", "idx-c"} /\ environment # ""

\* kwargs.get(key, default)
kwargs_get(kwargs, key, default) ==
    IF key \in DOMAIN kwargs THEN kwargs[key] ELSE default

\* if 'name' in kwargs: validate, then assign.
update_name(session, kwargs) ==
    IF session.raised \/ "name" \notin DOMAIN kwargs THEN session
    ELSE IF ~validate_name(kwargs["name"])
         THEN [session EXCEPT !.raised = TRUE]
         ELSE [session EXCEPT !.tenant.name = kwargs["name"]]

\* if 'status' in kwargs: validate, then assign.
update_status(session, kwargs) ==
    IF session.raised \/ "status" \notin DOMAIN kwargs THEN session
    ELSE IF ~validate_status(kwargs["status"])
         THEN [session EXCEPT !.raised = TRUE]
         ELSE [session EXCEPT !.tenant.status = kwargs["status"]]

\* if 'pinecone_index_name' in kwargs or 'pinecone_environment' in kwargs:
\* the pair is validated with the stored value for the one not passed.
update_pinecone(session, kwargs) ==
    IF \/ session.raised
       \/ DOMAIN kwargs \cap {"pinecone_index_name",
                              "pinecone_environment"} = {}
    THEN session
    ELSE LET index_name == kwargs_get(kwargs, "pinecone_index_name",
                                      session.tenant.pinecone_index_name)
             environment == kwargs_get(kwargs, "pinecone_environment",
                                       session.tenant.pinecone_environment)
         IN IF ~validate_pinecone_config(index_name, environment)
            THEN [session EXCEPT !.raised = TRUE]
            ELSE [session EXCEPT
                     !.tenant.pinecone_index_name = index_name,
                     !.tenant.pinecone_environment = environment]

\* if 'metadata' in kwargs: assign.
update_metadata(session, kwargs) ==
    IF session.raised \/ "metadata" \notin DOMAIN kwargs THEN session
    ELSE [session EXCEPT !.tenant.metadata = kwargs["metadata"]]

\* The assignments of update_tenant in the order of the code, on the
\* session of the call: the loaded tenant object with the assignments made
\* so far, and whether a validation has raised.
update_fields(tenant, kwargs) ==
    update_metadata(
        update_pinecone(
            update_status(
                update_name([tenant |-> tenant, raised |-> FALSE], kwargs),
                kwargs),
            kwargs),
        kwargs)

\* session.commit(): the row of the tenant's id becomes the tenant object.
commit(tenants, tenant) ==
    {row \in tenants : row.id # tenant.id} \cup {tenant}

\* TenantRepository.update_tenant that flushes each assignment as it is
\* made, so that a later validation error leaves the earlier ones stored.
update_tenant_Autoflush(tenants, tenant_id, kwargs) ==
    LET found == get_tenant_by_id(tenants, tenant_id) IN
    IF found = None THEN [tenants |-> tenants, out |-> Returns(None)]
    ELSE IF "id" \in DOMAIN kwargs
    THEN [tenants |-> tenants,
          out |-> RaisesMessage("ValueError",
                                <<"cannot", "update", "tenant", "id">>)]
    ELSE LET session == update_fields(found[1], kwargs) IN
         [tenants |-> commit(tenants, session.tenant),
          out |-> IF session.raised
                  THEN RaisesMessage("ValueError", <<"validation">>)
                  ELSE Returns(Some(session.tenant))]

\* TenantRepository.update_tenant: None for an id without row; ValueError
\* when the id is among the keyword arguments; else the fields passed are
\* validated and assigned one after the other and committed at the end.
\* A validation error leaves the function before the commit, and
\* session.close() drops what was assigned.
update_tenant(tenants, tenant_id, kwargs) ==
    LET found == get_tenant_by_id(tenants, tenant_id) IN
    IF found = None THEN [tenants |-> tenants, out |-> Returns(None)]
    ELSE IF "id" \in DOMAIN kwargs
    THEN [tenants |-> tenants,
          out |-> RaisesMessage("ValueError",
                                <<"cannot", "update", "tenant", "id">>)]
    ELSE LET session == update_fields(found[1], kwargs) IN
         IF session.raised
         THEN [tenants |-> tenants,
               out |-> RaisesMessage("ValueError", <<"validation">>)]
         ELSE [tenants |-> commit(tenants, session.tenant),
               out |-> Returns(Some(session.tenant))]

\* ServiceFactory.get_document_service that builds a DocumentService on
\* every call.
get_document_service_Uncached(s, tenant_id) ==
    IF get_tenant_by_id(s.tenants, tenant_id) = None
    THEN [svc |-> s,
          out |-> RaisesMessage("ValueError", <<"not", "found">>)]
    ELSE [svc |-> [s EXCEPT !.document_services[tenant_id] =
                                Some(s.constructed + 1),
                            !.constructed = s.constructed + 1],
          out |-> Returns(s.constructed + 1)]

\* ServiceFactory.get_document_service: the cached DocumentService of the
\* tenant, built from the tenant's row at the first call; a DocumentService
\* is known by the order in which it was constructed.
get_document_service(s, tenant_id) ==
    IF s.document_services[tenant_id] = None
    THEN LET tenant_info == get_tenant_by_id(s.tenants, tenant_id) IN
         IF tenant_info = None
         THEN [svc |-> s,
               out |-> RaisesMessage("ValueError", <<"not", "found">>)]
         ELSE [svc |-> [s EXCEPT !.document_services[tenant_id] =
                                     Some(s.constructed + 1),
                                 !.constructed = s.constructed + 1],
               out |-> Returns(s.constructed + 1)]
    ELSE [svc |-> s, out |-> Returns(s.document_services[tenant_id][1])]

(***************************************************************************)
(* BlobService: blobs in Azure containers, one container per tenant and    *)
(* project.                                                                *)
(***************************************************************************)
\* The local files upload_file is pointed at: the content of each path, None
\* for a path where there is no file.
Files ==
    [x \in {"/tmp/a.txt", "/tmp/b.txt", "/tmp/gone.txt"} |->
        IF x = "/tmp/a.txt" THEN Some("one")
        ELSE IF x = "/tmp/b.txt" THEN Some("two") ELSE None]

\* os.path.basename(file_path)
basename(file_path) ==
    IF file_path = "/tmp/a.txt" THEN "a.txt"
    ELSE IF file_path = "/tmp/b.txt" THEN "b.txt" ELSE "gone.txt"

BlobNames == {"doc.txt"} \cup {basename(x) : x \in DOMAIN Files}

\* The tenant and project ids upload, download and delete are called with.
BlobTenants == {"t1", "T1", "", " "}
BlobProjects == {"p1"}

\* str.lower()
lower(text) == IF text = "T1" THEN "t1" ELSE text

\* str.strip() of an id: an id of blanks becomes the empty string.
strip(text) == IF text = " " THEN "" ELSE text

\* f"{tenant_id}-{project_id}".lower()
container_name(tenant_id, project_id) ==
    <<lower(tenant_id), "-", lower(project_id)>>

\* No blob in any container.
NoBlobs ==
    [c \in {container_name(t, pr) : t \in BlobTenants, pr \in BlobProjects} |->
        [b \in BlobNames |-> None]]

\* BlobService._validate_tenant_and_project: the error it raises, "" if none.
validate_tenant_and_project(tenant_id, project_id) ==
    IF strip(tenant_id) = "" \/ strip(project_id) = ""
    THEN "ValueError" ELSE ""

\* BlobService.upload_file: the blob gets the content of the file, replacing
\* what it had (overwrite=True); every exception is logged and dropped, and
\* the call returns None whatever happened.
upload_file(blobs, file_path, tenant_id, project_id, blob_name) ==
    LET name == IF blob_name = None THEN basename(file_path)
                ELSE blob_name[1]
        container == container_name(tenant_id, project_id)
    IN IF validate_tenant_and_project(tenant_id, project_id) # ""
       THEN [blobs |-> blobs, out |-> Returns(None)]
       ELSE IF Files[file_path] = None
       THEN [blobs |-> blobs, out |-> Returns(None)]
       ELSE [blobs |-> [blobs EXCEPT ![container][name] = Files[file_path]],
             out |-> Returns(None)]

\* BlobService.download_file: a stream of the blob's content; the error of
\* the validation or of download_blob is raised.
download_file(blobs, tenant_id, project_id, blob_name) ==
    LET container == container_name(tenant_id, project_id) IN
    IF validate_tenant_and_project(tenant_id, project_id) # ""
    THEN RaisesMessage("ValueError", <<"tenant_id", "project_id">>)
    ELSE IF blobs[container][blob_name] = None
    THEN RaisesMessage("ResourceNotFoundError", <<"BlobNotFound">>)
    ELSE Returns(blobs[container][blob_name])

\* BlobService.delete_file: the blob is removed; the error of the
\* validation or of delete_blob is raised.
delete_file(blobs, tenant_id, project_id, blob_name) ==
    LET container == container_name(tenant_id, project_id) IN
    IF validate_tenant_and_project(tenant_id, project_id) # ""
    THEN [blobs |-> blobs,
          out |-> RaisesMessage("ValueError", <<"tenant_id", "project_id">>)]
    ELSE IF blobs[container][blob_name] = None
    THEN [blobs |-> blobs,
          out |-> RaisesMessage("ResourceNotFoundError", <<"BlobNotFound">>)]
    ELSE [blobs |-> [blobs EXCEPT ![container][blob_name] = None],
          out |-> Returns(None)]

\* ServiceFactory(): no DocumentService is cached; tenants is the table.
ServiceFactory(tenants) ==
    [tenants |-> tenants,
     document_services |-> [t \in TenantIds |-> None],
     constructed |-> 0,
     blobs |-> NoBlobs]

\* The service layer while documents are processed: every tenant of the
\* scan is in the table.
NoServices ==
    ServiceFactory({Tenant(t, [name |-> "Acme", status |-> "active",
                               pinecone_index_name |-> "idx-a",
                               pinecone_environment |-> "us-east-1",
                               metadata |-> None]) :
                    t \in TenantIds})

\* Step names passed to get_retry_state: the five of retry_mapping and one
\* it does not know.
\* The step names _handle_step_failure and _handle_workflow_failure record.
RecordedSteps == {StepName(i) : i \in Stages} \cup {"workflow"}

StepNames == DOMAIN retry_mapping \cup RecordedSteps \cup {"unknown_step"}

\* The calls of DocumentStateMachine methods, before they are made.
Calls ==
    {[op |-> o, args |-> <<f, t>>, out |-> None] :
        o \in {"can_transition", "validate_transition"},
        f \in DocumentState, t \in DocumentState}
    \cup {[op |-> "get_retry_state", args |-> <<a>>, out |-> None] :
            a \in {Member(x) : x \in DocumentState}
                    \cup {Str(x) : x \in StepNames}}
    \cup {[op |-> o, args |-> <<x>>, out |-> None] :
            o \in {"is_processing_state", "is_terminal_state",
                   "step_round_trip"},
            x \in DocumentState}

WritePcs == {"enter_write", "done_write", "completed_write"}
FailurePcs == {"step_failure", "workflow_failure"}
CallPcs == WritePcs \cup FailurePcs \cup {"activity"}
ClosedPcs == {"none", "returned", "raised"}

Live(r) == r.pc \notin ClosedPcs

\* A document row as the upload path creates it.
UploadedDocument == [status |-> UPLOADED, step |-> None, error_details |-> None]

\* WorkflowState(document_id, tenant_id, current_state=UPLOADED), and the
\* position of run() before its first await.  attempt is Temporal's attempt
\* number of the awaited call, counted where a retry policy bounds it.
\* log (status writes done), inv and sfail (attempts of each stage activity
\* begun and failed), failed_call (the await that raised) and started_in (the
\* document row when the run began) record what the run did; the code does
\* not read them.  cancel_requested: Temporal delivered a cancellation
\* request to the run.
NewRun(input_data, row) ==
    [document_id   |-> input_data.document_id,
     tenant_id     |-> input_data.tenant_id,
     current_state |-> UPLOADED,
     error_details |-> None,
     pc            |-> "enter_write",
     stage         |-> 1,
     attempt       |-> 0,
     inflight      |-> FALSE,
     last_failure  |-> None,
     log           |-> <<>>,
     inv           |-> [i \in Stages |-> 0],
     sfail         |-> [i \in Stages |-> 0],
     failed_call   |-> None,
     started_in    |-> row,
     cancel_requested |-> FALSE]

NoRun ==
    [document_id   |-> "",
     tenant_id     |-> "",
     current_state |-> UPLOADED,
     error_details |-> None,
     pc            |-> "none",
     stage         |-> 1,
     attempt       |-> 0,
     inflight      |-> FALSE,
     last_failure  |-> None,
     log           |-> <<>>,
     inv           |-> [i \in Stages |-> 0],
     sfail         |-> [i \in Stages |-> 0],
     failed_call   |-> None,
     started_in    |-> None,
     cancel_requested |-> FALSE]

Init ==
    /\ client = FALSE
    /\ store = [t \in TenantIds |->
                  [d \in Docs |-> IF d \in UploadedDocs /\ Owner[d] = t
                                  THEN Some(UploadedDocument) ELSE None]]
    /\ runs = [id \in WorkflowIds |-> NoRun]
    /\ faults = 0
    /\ rejected = FALSE
    /\ sm = NoCall
    /\ svc = NoServices


(***************************************************************************)
(* The document store: activities/document_activities.py and               *)
(* DocumentService.  Document.update_status and Document.mark_failed       *)
(* (models/document.py) follow the StatusStore contract.                   *)
(***************************************************************************)
Min(S) == CHOOSE x \in S : \A y \in S : x <= y

\* for tenant in tenant_service.list_tenants(): ... if document: break
\* The TenantService of the sources defines get_all_tenants and no
\* list_tenants; the scan is modelled over TenantList, the tenants in the
\* order the tenant store returns them.
FindTenant(st, document_id) ==
    LET found == {k \in 1..Len(TenantList) :
                     st[TenantList[k]][document_id] # None}
    IN  IF found = {} THEN None ELSE Some(TenantList[Min(found)])

\* Document.update_status(status, step, error_details)
Document_update_status(document, status, step, error_details) ==
    [document EXCEPT !.status = status, !.step = step,
                     !.error_details = error_details]

\* Document.mark_failed(step, error_type, error_message, retryable)
Document_mark_failed(document, step, error_type, error_message, retryable) ==
    [document EXCEPT
        !.status = FAILED,
        !.step = Some(step),
        !.error_details = Some([step |-> step, error_type |-> error_type,
                                message |-> error_message,
                                retryable |-> retryable])]

\* Mutant of update_document_status: the error detail the document carries
\* is handed back to Document.update_status instead of the default None.
update_document_status_KeepDetail(db, document_id, status, step) ==
    IF db[document_id] # None
    THEN [db EXCEPT ![document_id] =
             Some(Document_update_status(db[document_id][1], status, step,
                                         db[document_id][1].error_details))]
    ELSE db

\* DocumentService.update_document_status on one tenant's database
update_document_status(db, document_id, status, step) ==
    IF db[document_id] # None
    THEN [db EXCEPT ![document_id] =
             Some(Document_update_status(db[document_id][1], status, step, None))]
    ELSE db

\* Mutant of mark_document_failed: a document that is failed already is
\* marked as not retryable.
mark_document_failed_SecondIsFinal(db, document_id, step, error_type, error_message, retryable) ==
    IF db[document_id] # None
    THEN [db EXCEPT ![document_id] =
             Some(Document_mark_failed(db[document_id][1], step, error_type,
                     error_message,
                     retryable /\ db[document_id][1].status # FAILED))]
    ELSE db

\* DocumentService.mark_document_failed on one tenant's database
mark_document_failed(db, document_id, step, error_type, error_message, retryable) ==
    IF db[document_id] # None
    THEN [db EXCEPT ![document_id] =
             Some(Document_mark_failed(db[document_id][1], step, error_type,
                                       error_message, retryable))]
    ELSE db

\* update_document_status_activity, once the owning tenant t is found
update_document_status_activity(st, t, input) ==
    [st EXCEPT ![t] = update_document_status(st[t], input.document_id,
                                             input.status, input.step)]

\* mark_document_failed_activity, once the owning tenant t is found
mark_document_failed_activity(st, t, input) ==
    [st EXCEPT ![t] = mark_document_failed(st[t], input.document_id, input.step,
                                           input.error_type, input.error_message,
                                           input.retryable)]

\* DocumentRepository.list_by_status(status) on the documents of one
\* tenant: the ids of the active documents stored with that status, all of
\* them when no status is given; ValueError for a status that is not one of
\* valid_statuses.
list_by_status(documents, status) ==
    LET valid_statuses == {"uploaded", "processing", "failed", "completed"}
        active == {d \in DOMAIN documents : documents[d] # None}
    IN  IF status = None \/ status = Some("") THEN Returns(active)
        ELSE IF status[1] \notin valid_statuses THEN Raises("ValueError")
        ELSE Returns({d \in active : documents[d][1].status = status[1]})

\* The row a status activity for document_id reads and writes, if any.
Row(st, document_id) ==
    IF FindTenant(st, document_id) = None THEN None
    ELSE st[FindTenant(st, document_id)[1]][document_id]

(***************************************************************************)
(* DocumentProcessingWorkflow: what run() does between two awaits.         *)
(***************************************************************************)
\* The status and step the pending _update_document_status call passes.
WriteStatus(r) ==
    CASE r.pc = "enter_write"     -> EnteringState(r.stage)
      [] r.pc = "done_write"      -> DoneState(r.stage)
      [] r.pc = "completed_write" -> COMPLETED

WriteStep(r) == IF r.pc = "enter_write" THEN Some(StepName(r.stage)) ELSE None

NextCall(r, pc) ==
    [r EXCEPT !.pc = pc, !.attempt = 0, !.inflight = FALSE, !.last_failure = None]

\* state.current_state = <entering state>; then the stage activity
AfterEnterWrite(r) ==
    NextCall([r EXCEPT !.current_state = EnteringState(r.stage)], "activity")

\* Mutant of AfterStageActivity: the done state is not written.
AfterStageActivity_NoDoneWrite(r) ==
    IF r.stage < NumStages
    THEN NextCall([r EXCEPT !.stage = r.stage + 1], "enter_write")
    ELSE NextCall(r, "completed_write")

\* the stage activity returned; then the write of the done state
AfterStageActivity(r) == NextCall(r, "done_write")

\* Mutant of AfterDoneWrite: run() returns without the COMPLETED write.
AfterDoneWrite_NoCompletedWrite(r) ==
    LET r1 == [r EXCEPT !.current_state = DoneState(r.stage)]
    IN  IF r.stage < NumStages
        THEN NextCall([r1 EXCEPT !.stage = r.stage + 1], "enter_write")
        ELSE NextCall(r1, "returned")

\* state.current_state = <done state>; then the next stage method, or the
\* COMPLETED write after _summarize_document
AfterDoneWrite(r) ==
    LET r1 == [r EXCEPT !.current_state = DoneState(r.stage)]
    IN  IF r.stage < NumStages
        THEN NextCall([r1 EXCEPT !.stage = r.stage + 1], "enter_write")
        ELSE NextCall(r1, "completed_write")

\* return {"status": "completed", ...}
AfterCompletedWrite(r) == NextCall(r, "returned")

\* _handle_step_failure up to its await: state.error_details = {...}
HandleStepFailure(r, error_message) ==
    NextCall([r EXCEPT !.error_details =
                 Some([step |-> StepName(r.stage),
                       error_type |-> "processing_error",
                       message |-> error_message,
                       retryable |-> TRUE,
                       workflow_state |-> r.current_state])],
             "step_failure")

\* _handle_workflow_failure up to its await: state.error_details = {...}
HandleWorkflowFailure(r, error_message) ==
    NextCall([r EXCEPT !.error_details =
                 Some([step |-> "workflow",
                       error_type |-> "workflow_error",
                       message |-> error_message,
                       retryable |-> FALSE,
                       workflow_state |-> r.current_state])],
             "workflow_failure")

\* Mutant of Raised: an error of the COMPLETED write is swallowed and run()
\* returns its success result.
Raised_CompletedSwallowed(r, error_message) ==
    LET r1 == [r EXCEPT !.failed_call =
                  Some([call |-> r.pc, stage |-> r.stage,
                        attempts |-> r.attempt, message |-> error_message])]
    IN  IF r.pc = "completed_write"
        THEN NextCall(r1, "returned")
        ELSE HandleStepFailure(r1, error_message)

\* An await raised: inside a stage method the except clause calls
\* _handle_step_failure, in run() itself it calls _handle_workflow_failure.
Raised(r, error_message) ==
    LET r1 == [r EXCEPT !.failed_call =
                  Some([call |-> r.pc, stage |-> r.stage,
                        attempts |-> r.attempt, message |-> error_message])]
    IN  IF r.pc = "completed_write"
        THEN HandleWorkflowFailure(r1, error_message)
        ELSE HandleStepFailure(r1, error_message)

\* Mutant of AfterStepFailure: the stage method does not re-raise, and
\* run() goes on with the next stage method.
AfterStepFailure_NoRaise(r) ==
    LET r1 == [r EXCEPT !.current_state = FAILED]
    IN  IF r.stage < NumStages
        THEN NextCall([r1 EXCEPT !.stage = r.stage + 1], "enter_write")
        ELSE NextCall(r1, "completed_write")

\* mark_document_failed_activity returned in _handle_step_failure:
\* state.current_state = FAILED; the stage method re-raises and run()'s
\* except clause calls _handle_workflow_failure.
AfterStepFailure(r) ==
    HandleWorkflowFailure([r EXCEPT !.current_state = FAILED],
                          r.error_details[1].message)

\* mark_document_failed_activity returned in _handle_workflow_failure: raise
AfterWorkflowFailure(r) == NextCall(r, "raised")

\* What run() has returned, if it has: the success result.
Result(r) ==
    IF r.pc = "returned"
    THEN Some([status |-> "completed", document_id |-> r.document_id,
               final_state |-> COMPLETED])
    ELSE None

\* The arguments of the pending mark_document_failed_activity call.
MarkFailedInput(r) ==
    [document_id   |-> r.document_id,
     step          |-> r.error_details[1].step,
     error_type    |-> r.error_details[1].error_type,
     error_message |-> r.error_details[1].message,
     retryable     |-> r.error_details[1].retryable]


(***************************************************************************)
(* Actions.                                                                *)
(***************************************************************************)
\* DocumentProcessingWorker.start: self.client = await Client.connect(...)
WorkerStart ==
    /\ client = FALSE
    /\ client' = TRUE
    /\ UNCHANGED <<store, runs, faults, rejected, sm, svc>>

\* Temporal starts no second execution under the id of a running one.
CanStart(id) == ~Live(runs[id])

\* start_document_processing: client.start_workflow(..., id=...) succeeds
StartDocumentProcessing(input_data) ==
    LET id == WorkflowId(input_data) IN
    /\ client
    /\ CanStart(id)
    /\ runs' = [runs EXCEPT ![id] =
                   NewRun(input_data, Row(store, input_data.document_id))]
    /\ UNCHANGED <<client, store, faults, rejected, sm, svc>>

\* start_document_processing: client.start_workflow raises
\* WorkflowAlreadyStartedError, which is logged and re-raised
StartRejected(input_data) ==
    /\ client
    /\ ~CanStart(WorkflowId(input_data))
    /\ rejected' = TRUE
    /\ UNCHANGED <<client, store, runs, faults, sm, svc>>

\* Mutant of ActivityStart: an attempt is begun although the one before it
\* has not ended.
ActivityStart_Overlapping(id) ==
    LET r == runs[id] IN
    /\ r.pc \in CallPcs
    /\ runs' = [runs EXCEPT ![id] =
                   [r EXCEPT !.inflight = TRUE,
                             !.attempt = IF r.pc \in FailurePcs THEN 0
                                         ELSE r.attempt + 1,
                             !.inv = IF r.pc = "activity"
                                     THEN [r.inv EXCEPT ![r.stage] = @ + 1]
                                     ELSE r.inv]]
    /\ UNCHANGED <<client, store, faults, rejected, sm, svc>>

\* The worker begins an attempt of the activity the run awaits.
ActivityStart(id) ==
    LET r == runs[id] IN
    /\ r.pc \in CallPcs
    /\ ~r.inflight
    /\ runs' = [runs EXCEPT ![id] =
                   [r EXCEPT !.inflight = TRUE,
                             !.attempt = IF r.pc \in FailurePcs THEN 0
                                         ELSE r.attempt + 1,
                             !.inv = IF r.pc = "activity"
                                     THEN [r.inv EXCEPT ![r.stage] = @ + 1]
                                     ELSE r.inv]]
    /\ UNCHANGED <<client, store, faults, rejected, sm, svc>>

\* A stage activity attempt returns its result.
StageActivitySucceeds(id) ==
    LET r == runs[id] IN
    /\ r.pc = "activity"
    /\ r.inflight
    /\ runs' = [runs EXCEPT ![id] = AfterStageActivity(r)]
    /\ UNCHANGED <<client, store, faults, rejected, sm, svc>>

\* A stage activity attempt raises: Temporal schedules another attempt, or
\* execute_activity raises ActivityError in the workflow.
StageActivityFails(id, kind) ==
    LET r == runs[id] IN
    /\ r.pc = "activity"
    /\ r.inflight
    /\ faults < MaxFaults
    /\ faults' = faults + 1
    /\ LET r1 == [r EXCEPT !.sfail = [@ EXCEPT ![r.stage] = @ + 1]]
       IN  runs' = [runs EXCEPT ![id] =
                       IF IsRetried(kind) /\ r.attempt < StageMaximumAttempts
                       THEN [r1 EXCEPT !.inflight = FALSE,
                                       !.last_failure = Some(kind)]
                       ELSE Raised(r1, kind)]
    /\ UNCHANGED <<client, store, rejected, sm, svc>>

\* update_document_status_activity finds the document and writes the status.
UpdateStatusSucceeds(id) ==
    LET r == runs[id]
        t == FindTenant(store, r.document_id)
        input == [document_id |-> r.document_id, status |-> WriteStatus(r),
                  step |-> WriteStep(r)]
    IN
    /\ r.pc \in WritePcs
    /\ r.inflight
    /\ t # None
    /\ store' = update_document_status_activity(store, t[1], input)
    /\ LET r1 == [r EXCEPT !.log = Append(@,
                        [from |-> Row(store, r.document_id)[1].status,
                         to |-> input.status, step |-> input.step])]
       IN  runs' = [runs EXCEPT ![id] =
                       CASE r.pc = "enter_write"     -> AfterEnterWrite(r1)
                         [] r.pc = "done_write"      -> AfterDoneWrite(r1)
                         [] r.pc = "completed_write" -> AfterCompletedWrite(r1)]
    /\ UNCHANGED <<client, faults, rejected, sm, svc>>

\* update_document_status_activity raises (ValueError: the document is in
\* no tenant; or a database error, a timeout): another attempt, or the call
\* raises after maximum_attempts.
UpdateStatusFails(id) ==
    LET r == runs[id] IN
    /\ r.pc \in WritePcs
    /\ r.inflight
    /\ \/ FindTenant(store, r.document_id) = None /\ faults' = faults
       \/ FindTenant(store, r.document_id) # None /\ faults < MaxFaults
          /\ faults' = faults + 1
    /\ runs' = [runs EXCEPT ![id] =
                   IF r.attempt < StatusMaximumAttempts
                   THEN [r EXCEPT !.inflight = FALSE,
                                  !.last_failure = Some("status_write")]
                   ELSE Raised(r, "status_write")]
    /\ UNCHANGED <<client, store, rejected, sm, svc>>

\* mark_document_failed_activity finds the document and marks it failed.
MarkFailedSucceeds(id) ==
    LET r == runs[id]
        t == FindTenant(store, r.document_id)
        input == MarkFailedInput(r)
    IN
    /\ r.pc \in FailurePcs
    /\ r.inflight
    /\ t # None
    /\ store' = mark_document_failed_activity(store, t[1], input)
    /\ LET r1 == [r EXCEPT !.log = Append(@,
                        [from |-> Row(store, r.document_id)[1].status,
                         to |-> FAILED, step |-> Some(input.step)])]
       IN  runs' = [runs EXCEPT ![id] =
                       IF r.pc = "step_failure" THEN AfterStepFailure(r1)
                       ELSE AfterWorkflowFailure(r1)]
    /\ UNCHANGED <<client, faults, rejected, sm, svc>>

\* mark_document_failed_activity raises: the call names no retry policy, so
\* Temporal's default applies and the attempt is repeated without limit.
MarkFailedFails(id) ==
    LET r == runs[id] IN
    /\ r.pc \in FailurePcs
    /\ r.inflight
    /\ \/ FindTenant(store, r.document_id) = None /\ faults' = faults
       \/ FindTenant(store, r.document_id) # None /\ faults < MaxFaults
          /\ faults' = faults + 1
    /\ runs' = [runs EXCEPT ![id] =
                   [r EXCEPT !.inflight = FALSE,
                             !.last_failure = Some("status_write")]]
    /\ UNCHANGED <<client, store, rejected, sm, svc>>

Next ==
    \/ WorkerStart
    \/ \E input_data \in Inputs : StartDocumentProcessing(input_data)
    \/ \E input_data \in Inputs : StartRejected(input_data)
    \/ \E id \in WorkflowIds : ActivityStart(id)
    \/ \E id \in WorkflowIds : StageActivitySucceeds(id)
    \/ \E id \in WorkflowIds, kind \in ErrorKinds : StageActivityFails(id, kind)
    \/ \E id \in WorkflowIds : UpdateStatusSucceeds(id)
    \/ \E id \in WorkflowIds : UpdateStatusFails(id)
    \/ \E id \in WorkflowIds : MarkFailedSucceeds(id)
    \/ \E id \in WorkflowIds : MarkFailedFails(id)

Spec == Init /\ [][Next]_vars

\* Resumption: the uploaded documents start as the first failure write of an
\* earlier run left them, FAILED with the step of a stage in the error
\* detail.
InitResume ==
    /\ client = FALSE
    /\ \E s \in DOMAIN retry_mapping :
          store = [t \in TenantIds |->
                     [d \in Docs |->
                        IF d \in UploadedDocs /\ Owner[d] = t
                        THEN Some(Document_mark_failed(UploadedDocument, s,
                                     "processing_error", "transient", TRUE))
                        ELSE None]]
    /\ runs = [id \in WorkflowIds |-> NoRun]
    /\ faults = 0
    /\ rejected = FALSE
    /\ sm = NoCall
    /\ svc = NoServices

SpecResume == InitResume /\ [][Next]_vars

\* A cancellation request reaches a run: Temporal cancels the run's task at
\* its await and requests cancellation of the awaited activity.  The await
\* raises either ActivityError (cause CancelledError), an Exception that the
\* except clauses catch like any failure of the call (caught), or
\* asyncio.CancelledError, a BaseException that passes every
\* `except Exception` and closes the run at once.  The workflow names no
\* cancellation handler and no error type for it.
Cancelled(r, caught) ==
    LET r1 == [r EXCEPT !.cancel_requested = TRUE] IN
    IF ~caught THEN NextCall(r1, "raised")
    ELSE CASE r.pc \in WritePcs \cup {"activity"} -> Raised(r1, "cancelled")
           [] r.pc = "step_failure" -> HandleWorkflowFailure(r1, "cancelled")
           [] r.pc = "workflow_failure" -> NextCall(r1, "raised")

CancelWorkflow(id, caught) ==
    LET r == runs[id] IN
    /\ Live(r)
    /\ ~r.cancel_requested
    /\ runs' = [runs EXCEPT ![id] = Cancelled(r, caught)]
    /\ UNCHANGED <<client, store, faults, rejected, sm, svc>>

\* Cancellation is checked over the runs in which no activity attempt fails
\* of itself.
NextCancel ==
    \/ WorkerStart
    \/ \E input_data \in Inputs : StartDocumentProcessing(input_data)
    \/ \E id \in WorkflowIds : ActivityStart(id)
    \/ \E id \in WorkflowIds : StageActivitySucceeds(id)
    \/ \E id \in WorkflowIds : UpdateStatusSucceeds(id)
    \/ \E id \in WorkflowIds : MarkFailedSucceeds(id)
    \/ \E id \in WorkflowIds, caught \in BOOLEAN : CancelWorkflow(id, caught)

SpecCancel == Init /\ [][NextCancel]_vars

\* Two tenants store a document under the same id: d2 is uploaded in the
\* database of t1 and in the database of t2; requests for d2 name t2.
InitShared ==
    /\ client = FALSE
    /\ store = [t \in TenantIds |->
                  [d \in Docs |-> IF d = "d2"
                                  THEN Some(UploadedDocument) ELSE None]]
    /\ runs = [id \in WorkflowIds |-> NoRun]
    /\ faults = 0
    /\ rejected = FALSE
    /\ sm = NoCall
    /\ svc = NoServices

SpecShared == InitShared /\ [][Next]_vars

\* The methods of DocumentStateMachine are called on their own: each
\* behaviour makes one call, whose arguments the initial state draws.
InitSM ==
    /\ client = FALSE
    /\ store = [t \in TenantIds |-> [d \in Docs |-> None]]
    /\ runs = [id \in WorkflowIds |-> NoRun]
    /\ faults = 0
    /\ rejected = FALSE
    /\ sm \in Calls
    /\ svc = NoServices

CallCanTransition ==
    /\ sm.op = "can_transition"
    /\ sm.out = None
    /\ sm' = [sm EXCEPT !.out =
                 Some(Returns(can_transition(sm.args[1], sm.args[2])))]
    /\ UNCHANGED <<client, store, runs, faults, rejected, svc>>

CallValidateTransition ==
    /\ sm.op = "validate_transition"
    /\ sm.out = None
    /\ sm' = [sm EXCEPT !.out = Some(validate_transition(sm.args[1], sm.args[2]))]
    /\ UNCHANGED <<client, store, runs, faults, rejected, svc>>

CallGetRetryState ==
    /\ sm.op = "get_retry_state"
    /\ sm.out = None
    /\ sm' = [sm EXCEPT !.out = Some(get_retry_state(sm.args[1]))]
    /\ UNCHANGED <<client, store, runs, faults, rejected, svc>>

CallIsProcessingState ==
    /\ sm.op = "is_processing_state"
    /\ sm.out = None
    /\ sm' = [sm EXCEPT !.out = Some(Returns(is_processing_state(sm.args[1])))]
    /\ UNCHANGED <<client, store, runs, faults, rejected, svc>>

CallIsTerminalState ==
    /\ sm.op = "is_terminal_state"
    /\ sm.out = None
    /\ sm' = [sm EXCEPT !.out = Some(Returns(is_terminal_state(sm.args[1])))]
    /\ UNCHANGED <<client, store, runs, faults, rejected, svc>>

\* get_retry_state(get_processing_step_for_state(state)): the step handed
\* on is a str, or the None object.
CallStepRoundTrip ==
    /\ sm.op = "step_round_trip"
    /\ sm.out = None
    /\ LET step == get_processing_step_for_state(sm.args[1]) IN
          sm' = [sm EXCEPT !.out =
                    Some(get_retry_state(
                             IF step = None
                             THEN [type |-> "NoneType", value |-> ""]
                             ELSE Str(step[1])))]
    /\ UNCHANGED <<client, store, runs, faults, rejected, svc>>

NextSM ==
    \/ CallCanTransition
    \/ CallValidateTransition
    \/ CallGetRetryState
    \/ CallIsProcessingState
    \/ CallIsTerminalState
    \/ CallStepRoundTrip

SpecSM == InitSM /\ [][NextSM]_vars

\* The two status activities are called on their own, twice in a row with
\* the same input, on a store whose document d1 is in any status.  sm.out
\* collects the store after each call that returned.
DocumentRows ==
    {Document_update_status(UploadedDocument, status, step, None) :
        status \in DocumentState \ {FAILED}, step \in {None, Some("chunking")}}
    \cup {Document_mark_failed(UploadedDocument, step, "processing_error",
                               "fatal", retryable) :
            step \in {"chunking", "workflow"}, retryable \in BOOLEAN}

StatusCalls ==
    {[op |-> "update_document_status_activity",
      args |-> [document_id |-> d, status |-> status, step |-> step],
      out |-> None] :
        d \in Docs, status \in DocumentState \ {FAILED},
        step \in {None, Some("classification")}}
    \cup {[op |-> "mark_document_failed_activity",
           args |-> [document_id |-> d, step |-> step, error_type |-> et,
                     error_message |-> "timeout", retryable |-> retryable],
           out |-> None] :
            d \in Docs, step \in {"classification", "workflow"},
            et \in {"processing_error", "workflow_error"},
            retryable \in BOOLEAN}

InitStore ==
    /\ client = FALSE
    /\ \E row \in DocumentRows :
          store = [t \in TenantIds |->
                     [d \in Docs |-> IF d \in UploadedDocs /\ Owner[d] = t
                                     THEN Some(row) ELSE None]]
    /\ runs = [id \in WorkflowIds |-> NoRun]
    /\ faults = 0
    /\ rejected = FALSE
    /\ sm \in StatusCalls
    /\ svc = NoServices

\* The stores after the calls made so far.
StoresAfter == IF sm.out = None THEN <<>> ELSE sm.out[1].value

CallUpdateStatusActivity ==
    LET t == FindTenant(store, sm.args.document_id) IN
    /\ sm.op = "update_document_status_activity"
    /\ Len(StoresAfter) < 2
    /\ IF t = None
       THEN /\ sm.out = None
            /\ sm' = [sm EXCEPT !.out = Some(Raises("ValueError"))]
            /\ UNCHANGED store
       ELSE /\ store' = update_document_status_activity(store, t[1], sm.args)
            /\ sm' = [sm EXCEPT !.out =
                         Some(Returns(Append(StoresAfter, store')))]
    /\ UNCHANGED <<client, runs, faults, rejected, svc>>

CallMarkFailedActivity ==
    LET t == FindTenant(store, sm.args.document_id) IN
    /\ sm.op = "mark_document_failed_activity"
    /\ Len(StoresAfter) < 2
    /\ IF t = None
       THEN /\ sm.out = None
            /\ sm' = [sm EXCEPT !.out = Some(Raises("ValueError"))]
            /\ UNCHANGED store
       ELSE /\ store' = mark_document_failed_activity(store, t[1], sm.args)
            /\ sm' = [sm EXCEPT !.out =
                         Some(Returns(Append(StoresAfter, store')))]
    /\ UNCHANGED <<client, runs, faults, rejected, svc>>

NextStore ==
    \/ CallUpdateStatusActivity
    \/ CallMarkFailedActivity

SpecStore == InitStore /\ [][NextStore]_vars

\* Scheduling: Temporal dispatches every scheduled activity attempt to the
\* worker, and every attempt returns or raises, so a live run always takes
\* its next step; which way an attempt ends is not constrained.
RunStep(id) ==
    \/ ActivityStart(id)
    \/ StageActivitySucceeds(id)
    \/ \E kind \in ErrorKinds : StageActivityFails(id, kind)
    \/ UpdateStatusSucceeds(id)
    \/ UpdateStatusFails(id)
    \/ MarkFailedSucceeds(id)
    \/ MarkFailedFails(id)

Fairness == \A id \in WorkflowIds : WF_vars(RunStep(id))

SpecLive == Init /\ [][Next]_vars /\ Fairness


(***************************************************************************)
(* Properties.                                                             *)
(***************************************************************************)
RunIds == {id \in WorkflowIds : runs[id].pc # "none"}

\* The statuses a run has written, in order, and as a set.
Written(r) == [k \in 1..Len(r.log) |-> r.log[k].to]
WrittenSet(r) == {r.log[k].to : k \in 1..Len(r.log)}

\* The status writes of a run in which nothing fails.
PipelineOrder ==
    <<TEXT_EXTRACTING, TEXT_EXTRACTED, CHUNKING, CHUNKED, CLASSIFYING,
      CLASSIFIED, VECTORIZING, VECTORIZED, SUMMARIZING, SUMMARIZED, COMPLETED>>

IsPrefix(s, t) == Len(s) <= Len(t) /\ \A k \in 1..Len(s) : s[k] = t[k]

\* C1: at any time at most one live workflow execution exists for a
\* document id, whatever start requests were made: a request for a document
\* whose execution is live starts nothing.
C1_OneLiveRunPerDocument ==
    \A d \in Docs :
        Cardinality({id \in WorkflowIds :
                        Live(runs[id]) /\ runs[id].document_id = d}) <= 1

\* C1 witness: a request was refused while an execution of a document is live
\* and one of its activities is running.
C1_Witness ==
    /\ rejected
    /\ \E id \in WorkflowIds : Live(runs[id]) /\ runs[id].inflight

\* C2 (as claimed): every status write and failure write a run made was a
\* transition can_transition allows from the status the document had.
C2_EveryWriteAllowed ==
    \A id \in RunIds :
        \A k \in 1..Len(runs[id].log) :
            can_transition(runs[id].log[k].from, runs[id].log[k].to)

\* C3: a run in which no call has raised has written a prefix of the
\* pipeline order and no FAILED; a run that returned has written exactly the
\* eleven statuses in order and the document's stored status is COMPLETED.
C3_SuccessfulRunOrder ==
    \A id \in RunIds :
        LET r == runs[id] IN
        /\ r.failed_call = None =>
              /\ IsPrefix(Written(r), PipelineOrder)
              /\ FAILED \notin WrittenSet(r)
        /\ r.pc = "returned" =>
              /\ r.failed_call = None
              /\ Written(r) = PipelineOrder
              /\ Row(store, r.document_id) # None
              /\ Row(store, r.document_id)[1].status = COMPLETED

\* C3 witness: a run returned although no activity attempt ever failed.
C3_Witness ==
    /\ faults = 0
    /\ \E id \in RunIds : runs[id].pc = "returned"

\* C4: in a run, a stage activity is begun only after the stage's entering
\* status is written, the done status is written only after an attempt of the
\* stage activity has returned, and nothing of stage N+1 happens before the
\* done status of stage N is written; one call is awaited at a time.
C4_StageOrder ==
    \A id \in RunIds :
        LET r == runs[id] IN
        \A i \in Stages :
            /\ r.inv[i] > 0 => EnteringState(i) \in WrittenSet(r)
            /\ (r.pc = "activity" /\ r.stage = i) =>
                  /\ EnteringState(i) \in WrittenSet(r)
                  /\ DoneState(i) \notin WrittenSet(r)
            /\ (DoneState(i) \in WrittenSet(r) \/ (r.pc = "done_write" /\ r.stage = i)) =>
                  /\ r.inv[i] = r.sfail[i] + 1
                  /\ ~(r.pc = "activity" /\ r.stage = i)
            /\ (i < NumStages /\ (\/ r.stage > i
                                  \/ r.inv[i + 1] > 0
                                  \/ EnteringState(i + 1) \in WrittenSet(r)
                                  \/ DoneState(i + 1) \in WrittenSet(r))) =>
                  DoneState(i) \in WrittenSet(r)
            /\ (r.inflight /\ r.stage = i) => \A j \in Stages : j > i => r.inv[j] = 0

\* C4 witness: the third stage's activity is running after a failed attempt.
C4_Witness ==
    \E id \in RunIds :
        /\ runs[id].pc = "activity" /\ runs[id].stage = 3
        /\ runs[id].inflight /\ runs[id].inv[3] = 2

\* C5: once a call of stage i has raised in a run, no activity of a later
\* stage is ever begun and no status of a later stage is written.
C5_FailFast ==
    \A id \in RunIds :
        LET r == runs[id] IN
        r.failed_call # None =>
            /\ r.stage = r.failed_call[1].stage
            /\ \A j \in Stages : j > r.failed_call[1].stage =>
                  /\ r.inv[j] = 0
                  /\ EnteringState(j) \notin WrittenSet(r)
                  /\ DoneState(j) \notin WrittenSet(r)
            /\ COMPLETED \notin WrittenSet(r)

\* C5 witness: a run ended after its vectorization activity failed, and
\* summarization was never invoked.
C5_Witness ==
    \E id \in RunIds :
        /\ runs[id].pc = "raised"
        /\ runs[id].failed_call # None
        /\ runs[id].failed_call[1].call = "activity"
        /\ runs[id].failed_call[1].stage = 4
        /\ runs[id].inv[5] = 0


\* C6 (as claimed): when the activity of stage i has failed in a run and the
\* run has ended, the document is stored FAILED and the step of its stored
\* error detail is the name of stage i.
C6_FailedStepIsStage ==
    \A id \in RunIds :
        LET r == runs[id] IN
        (r.pc = "raised" /\ r.failed_call # None
            /\ r.failed_call[1].call = "activity") =>
            /\ Row(store, r.document_id) # None
            /\ Row(store, r.document_id)[1].status = FAILED
            /\ Row(store, r.document_id)[1].error_details # None
            /\ Row(store, r.document_id)[1].error_details[1].step =
                  StepName(r.failed_call[1].stage)

\* C7 (as claimed): a fatal error of a stage activity is never followed by
\* another attempt; the run that ends on it has invoked the stage once and
\* leaves the document FAILED with retryable = false.
C7_FatalFailsAtOnce ==
    \A id \in RunIds :
        LET r == runs[id] IN
        /\ ~(r.pc = "activity" /\ r.last_failure = Some("fatal"))
        /\ (r.pc = "raised" /\ r.failed_call # None
               /\ r.failed_call[1].call = "activity"
               /\ r.failed_call[1].message = "fatal") =>
              /\ r.inv[r.failed_call[1].stage] = 1
              /\ Row(store, r.document_id) # None
              /\ Row(store, r.document_id)[1].status = FAILED
              /\ Row(store, r.document_id)[1].error_details # None
              /\ Row(store, r.document_id)[1].error_details[1].retryable = FALSE

\* C8: a stage activity that fails fewer than 3 times and then returns does
\* not fail the run: a run reaches its failure handling only through a call
\* whose 3 attempts all failed, a stage that returned after k failures was
\* invoked k + 1 times, and a run that returned wrote no FAILED and left the
\* document COMPLETED.
C8_TransientFailuresRecovered ==
    \A id \in RunIds :
        LET r == runs[id] IN
        /\ (r.pc \in FailurePcs \cup {"raised"}) =>
              /\ r.failed_call # None
              /\ r.failed_call[1].attempts = 3
              /\ r.failed_call[1].call = "activity" =>
                    r.sfail[r.failed_call[1].stage] = 3
        /\ \A i \in Stages :
              DoneState(i) \in WrittenSet(r) =>
                  /\ r.sfail[i] < 3
                  /\ r.inv[i] = r.sfail[i] + 1
        /\ r.pc = "returned" =>
              /\ FAILED \notin WrittenSet(r)
              /\ Row(store, r.document_id) # None
              /\ Row(store, r.document_id)[1].status = COMPLETED

\* C8 witness: a run returned after its classification activity failed
\* twice and returned at the third attempt.
C8_Witness ==
    \E id \in RunIds :
        /\ runs[id].pc = "returned"
        /\ runs[id].sfail[3] = 2
        /\ runs[id].inv[3] = 3

\* C9: in a run every stage activity is begun at most 3 times and every
\* status update at most 3 times; after the third failed attempt of a stage
\* the call has raised, and the run that ended by raising left the document
\* FAILED.
C9_BoundedRetries ==
    \A id \in RunIds :
        LET r == runs[id] IN
        /\ \A i \in Stages :
              /\ r.inv[i] <= 3
              /\ r.sfail[i] = 3 =>
                    /\ r.failed_call # None
                    /\ r.failed_call[1].call = "activity"
                    /\ r.failed_call[1].stage = i
                    /\ r.pc \in FailurePcs \cup {"raised"}
        /\ (r.pc \in WritePcs \cup {"activity"}) => r.attempt <= 3
        /\ (r.pc = "raised" /\ r.failed_call[1].call = "activity") =>
              /\ Row(store, r.document_id) # None
              /\ Row(store, r.document_id)[1].status = FAILED

\* C9 witness: a run ended by raising after three failed attempts of its
\* chunking activity.
C9_Witness ==
    \E id \in RunIds :
        /\ runs[id].pc = "raised"
        /\ runs[id].sfail[2] = 3
        /\ runs[id].inv[2] = 3

\* The stage whose entering status is s.
StageOf(s) == CHOOSE i \in Stages : EnteringState(i) = s

\* C10 (as claimed): a run begun on a document stored FAILED with the step s
\* of a stage in its error detail writes retry_mapping[s] first and invokes
\* no stage upstream of s.
C10_ResumesAtFailedStep ==
    \A id \in RunIds :
        LET r == runs[id] IN
        (/\ r.started_in # None
         /\ r.started_in[1].status = FAILED
         /\ r.started_in[1].error_details # None
         /\ r.started_in[1].error_details[1].step \in DOMAIN retry_mapping) =>
            LET target == retry_mapping[r.started_in[1].error_details[1].step]
            IN  /\ Len(r.log) >= 1 => r.log[1].to = target
                /\ \A j \in Stages : j < StageOf(target) => r.inv[j] = 0

\* C11 (as claimed): COMPLETED is terminal for the document: no run ever
\* writes a status to a document whose stored status is COMPLETED.
C11_CompletedIsTerminal ==
    \A id \in RunIds :
        \A k \in 1..Len(runs[id].log) : runs[id].log[k].from # COMPLETED

\* C12 (as claimed): every run terminates: a live run is eventually closed,
\* returned or raised, whatever stage calls and status calls fail.
C12_EveryRunTerminates ==
    \A id \in WorkflowIds : Live(runs[id]) ~> ~Live(runs[id])

\* C13 (as claimed): a run that received a cancellation request starts no
\* further stage, and once it has closed its document is stored FAILED with
\* error_type "cancelled" and retryable true.
C13_CancelledIsRecorded ==
    \A id \in RunIds :
        LET r == runs[id]
            row == Row(store, r.document_id)
        IN  (r.cancel_requested /\ row # None) =>
               /\ r.pc \notin WritePcs \cup {"activity"}
               /\ ~Live(r) =>
                     /\ row[1].status = FAILED
                     /\ row[1].error_details # None
                     /\ row[1].error_details[1].error_type = "cancelled"
                     /\ row[1].error_details[1].retryable = TRUE

\* C14 (as claimed): the live runs never outnumber the configured
\* WORKER_MAX_CONCURRENT_WORKFLOWS, and the activity attempts in flight
\* across all runs never outnumber WORKER_MAX_CONCURRENT_ACTIVITIES.
C14_WorkerLimits ==
    /\ Cardinality({id \in WorkflowIds : Live(runs[id])})
          <= WORKER_MAX_CONCURRENT_WORKFLOWS
    /\ Cardinality({id \in WorkflowIds : Live(runs[id]) /\ runs[id].inflight})
          <= WORKER_MAX_CONCURRENT_ACTIVITIES

\* C15 (as claimed): a status write or failure write changes only the record
\* of the run's document in the run's tenant: whenever the record of document
\* d in tenant t changes, a live run of document d and tenant t exists.
C15_WritesOnlyOwnDocument ==
    [][\A t \in TenantIds, d \in Docs :
          store'[t][d] # store[t][d] =>
             \E id \in WorkflowIds :
                /\ Live(runs[id])
                /\ runs[id].document_id = d
                /\ runs[id].tenant_id = t]_vars

\* C16: can_transition(from, to) returns true exactly when `to` is in the
\* adjacency list of `from`: UPLOADED to TEXT_EXTRACTING or FAILED; each -ING
\* state to its done state or FAILED; each done state but SUMMARIZED to the
\* next -ING state or FAILED; SUMMARIZED to COMPLETED only; FAILED to the five
\* -ING states; COMPLETED to nothing.
C16_CanTransitionTable ==
    LET adjacent(f) ==
            CASE f = UPLOADED        -> {TEXT_EXTRACTING, FAILED}
              [] f = TEXT_EXTRACTING -> {TEXT_EXTRACTED, FAILED}
              [] f = CHUNKING        -> {CHUNKED, FAILED}
              [] f = CLASSIFYING     -> {CLASSIFIED, FAILED}
              [] f = VECTORIZING     -> {VECTORIZED, FAILED}
              [] f = SUMMARIZING     -> {SUMMARIZED, FAILED}
              [] f = TEXT_EXTRACTED  -> {CHUNKING, FAILED}
              [] f = CHUNKED         -> {CLASSIFYING, FAILED}
              [] f = CLASSIFIED      -> {VECTORIZING, FAILED}
              [] f = VECTORIZED      -> {SUMMARIZING, FAILED}
              [] f = SUMMARIZED      -> {COMPLETED}
              [] f = FAILED          -> {TEXT_EXTRACTING, CHUNKING, CLASSIFYING,
                                         VECTORIZING, SUMMARIZING}
              [] f = COMPLETED       -> {}
    IN  (sm.op = "can_transition" /\ sm.out # None) =>
           sm.out[1] = Returns(sm.args[2] \in adjacent(sm.args[1]))

\* C16 witness: can_transition was called on (FAILED, CHUNKING) and returned
\* true.
C16_Witness ==
    /\ sm.op = "can_transition"
    /\ sm.out # None
    /\ sm.args = <<FAILED, CHUNKING>>
    /\ sm.out[1].value = TRUE

\* C17: no state may be written over itself: can_transition(S, S) is false
\* for every state S.
C17_NoSelfLoop ==
    (sm.op = "can_transition" /\ sm.out # None /\ sm.args[1] = sm.args[2]) =>
        sm.out[1] = Returns(FALSE)

\* C17 witness: can_transition was called with FAILED twice.
C17_Witness ==
    /\ sm.op = "can_transition"
    /\ sm.out # None
    /\ sm.args = <<FAILED, FAILED>>

\* C18: from a processing state P, can_transition allows the done state of P
\* and FAILED and nothing else.
C18_ProcessingSuccessors ==
    LET done(P) ==
            CASE P = TEXT_EXTRACTING -> TEXT_EXTRACTED
              [] P = CHUNKING        -> CHUNKED
              [] P = CLASSIFYING     -> CLASSIFIED
              [] P = VECTORIZING     -> VECTORIZED
              [] P = SUMMARIZING     -> SUMMARIZED
    IN  (/\ sm.op = "can_transition"
         /\ sm.out # None
         /\ is_processing_state(sm.args[1])) =>
            sm.out[1] = Returns(sm.args[2] \in {done(sm.args[1]), FAILED})

\* C18 witness: can_transition was called from the processing state
\* CLASSIFYING with the next processing state and returned false.
C18_Witness ==
    /\ sm.op = "can_transition"
    /\ sm.out # None
    /\ is_processing_state(sm.args[1])
    /\ sm.args = <<CLASSIFYING, VECTORIZING>>
    /\ sm.out[1].value = FALSE

\* C19 (as claimed): get_retry_state called with a step name returns the
\* entry processing state of that step, and returns none for a name it does
\* not know: get_retry_state("chunking") is CHUNKING and
\* get_retry_state("unknown_step") is none.
C19_RetryStateOfStepName ==
    LET entry(name) ==
            CASE name = "text_extraction" -> Some(TEXT_EXTRACTING)
              [] name = "chunking"        -> Some(CHUNKING)
              [] name = "classification"  -> Some(CLASSIFYING)
              [] name = "vectorization"   -> Some(VECTORIZING)
              [] name = "summarization"   -> Some(SUMMARIZING)
              [] OTHER                    -> None
    IN  (/\ sm.op = "get_retry_state"
         /\ sm.out # None
         /\ sm.args[1].type = "str") =>
            sm.out[1] = Returns(entry(sm.args[1].value))

\* C20: validate_transition(from, to) raises InvalidStateTransitionError
\* exactly when can_transition(from, to) is false, and otherwise returns
\* without a value.
C20_ValidateTransition ==
    (sm.op = "validate_transition" /\ sm.out # None) =>
        sm.out[1] = IF can_transition(sm.args[1], sm.args[2])
                    THEN Returns(None)
                    ELSE Raises("InvalidStateTransitionError")

\* C20 witness: validate_transition raised for (COMPLETED, TEXT_EXTRACTING).
C20_Witness ==
    /\ sm.op = "validate_transition"
    /\ sm.out # None
    /\ sm.args = <<COMPLETED, TEXT_EXTRACTING>>
    /\ sm.out[1].raised = "InvalidStateTransitionError"

C22_WorkflowLevelFailure ==
    \A id \in RunIds :
        LET r == runs[id]
            row == Row(store, r.document_id)
        IN
        /\ ~(r.pc = "activity" /\ r.last_failure = Some("tenant_not_found"))
        /\ (r.failed_call # None
               /\ r.failed_call[1].message = "tenant_not_found") =>
              /\ r.failed_call[1].attempts = 1
              /\ r.error_details[1].error_type = "workflow_error"
              /\ r.error_details[1].retryable = FALSE
              /\ (r.pc = "raised" /\ row # None) =>
                    /\ row[1].status = FAILED
                    /\ row[1].error_details[1].retryable = FALSE

\* C23: a stage call that times out is attempted again until 3 attempts have
\* been made: a run waits for another attempt after a timeout only if fewer
\* than 3 were made, a stage call raises on a timeout only at its third
\* attempt, and the run that ends by it leaves the document FAILED.
C23_TimeoutIsTransient ==
    \A id \in RunIds :
        LET r == runs[id]
            row == Row(store, r.document_id)
        IN
        /\ (r.pc = "activity" /\ ~r.inflight
               /\ r.last_failure = Some("timeout")) => r.attempt < 3
        /\ (r.failed_call # None /\ r.failed_call[1].call = "activity"
               /\ r.failed_call[1].message = "timeout") =>
              /\ r.failed_call[1].attempts = 3
              /\ r.inv[r.failed_call[1].stage] = 3
              /\ r.pc = "raised" =>
                    row # None /\ row[1].status = FAILED

\* C23 witness: a run ended by raising after the third attempt of its text
\* extraction timed out, two attempts having failed before.
C23_Witness ==
    \E id \in RunIds :
        /\ runs[id].pc = "raised"
        /\ runs[id].failed_call # None
        /\ runs[id].failed_call[1].message = "timeout"
        /\ runs[id].failed_call[1].stage = 1
        /\ runs[id].sfail[1] = 3

\* C24: a run that has returned the success result {status: completed,
\* document_id, final_state: COMPLETED} had an attempt of its fifth stage
\* return and then wrote COMPLETED as its last write, and the document's
\* stored status is COMPLETED.
C24_SuccessResultAfterCompleted ==
    \A id \in RunIds :
        LET r == runs[id]
            row == Row(store, r.document_id)
        IN  Result(r) # None =>
               /\ Result(r)[1] = [status |-> "completed",
                                  document_id |-> r.document_id,
                                  final_state |-> "completed"]
               /\ r.inv[5] > r.sfail[5]
               /\ Len(r.log) >= 2
               /\ r.log[Len(r.log)].to = COMPLETED
               /\ r.log[Len(r.log) - 1].to = SUMMARIZED
               /\ row # None
               /\ row[1].status = COMPLETED

\* C24 witness: a run returned the success result after an attempt of its
\* fifth stage had failed and a later one returned.
C24_Witness ==
    \E id \in RunIds :
        /\ Result(runs[id]) # None
        /\ runs[id].sfail[5] >= 1

\* C25 (as claimed): whenever a run is not at a status write or failure
\* write, the document's stored status is the last status the run wrote and
\* the run's WorkflowState.current_state equals it, also after the COMPLETED
\* write and after the FAILED writes.
C25_StateMirror ==
    \A id \in RunIds :
        LET r == runs[id]
            row == Row(store, r.document_id)
        IN  (/\ r.pc \in {"activity", "returned", "raised"}
             /\ row # None
             /\ Len(r.log) > 0) =>
               /\ row[1].status = r.log[Len(r.log)].to
               /\ r.current_state = row[1].status

\* C26: a stored document carries an error detail exactly while its stored
\* status is FAILED: a status write that moves it out of FAILED clears the
\* detail.
C26_ErrorDetailIffFailed ==
    \A t \in TenantIds, d \in Docs :
        store[t][d] # None =>
            (store[t][d][1].error_details # None
                <=> store[t][d][1].status = FAILED)

\* C26 witness: a run that began on a FAILED document has written a status
\* to it, and the document now is not FAILED and carries no error detail.
C26_Witness ==
    \E id \in RunIds :
        LET r == runs[id]
            row == Row(store, r.document_id)
        IN  /\ r.started_in # None
            /\ r.started_in[1].status = FAILED
            /\ r.started_in[1].error_details # None
            /\ Len(r.log) > 0
            /\ row[1].status # FAILED
            /\ row[1].error_details = None

\* C27: the same update_document_status_activity call, or the same
\* mark_document_failed_activity call, made twice in a row leaves the store
\* as making it once did.
C27_StatusCallsIdempotent ==
    (sm.op \in {"update_document_status_activity",
                "mark_document_failed_activity"}
        /\ Len(StoresAfter) = 2) =>
            /\ StoresAfter[2] = StoresAfter[1]
            /\ store = StoresAfter[1]

\* C27 witness: mark_document_failed_activity was called twice with
\* retryable true and step "classification", and the document is stored
\* FAILED with that step.
C27_Witness ==
    /\ sm.op = "mark_document_failed_activity"
    /\ sm.args.retryable
    /\ Len(StoresAfter) = 2
    /\ Row(store, sm.args.document_id)[1].status = FAILED
    /\ Row(store, sm.args.document_id)[1].error_details[1].step = "classification"

\* C28: at most one stage activity attempt is in flight for a document at
\* any time, counting every attempt of every stage: in a run every attempt
\* of the stages before the current one has ended, no later stage has
\* begun, and of the current stage at most one attempt has begun and not
\* ended; and no two runs of one document have a stage attempt in flight.
C28_OneStageCallPerDocument ==
    /\ \A id \in RunIds :
          LET r == runs[id]
              open(i) == r.inv[i] - r.sfail[i]
          IN  /\ \A i \in Stages : i < r.stage => open(i) = 1
              /\ \A i \in Stages : i > r.stage => r.inv[i] = 0
              /\ open(r.stage) \in {0, 1}
              /\ (r.pc = "activity" /\ r.inflight) => open(r.stage) = 1
              /\ (r.pc = "activity" /\ ~r.inflight) => open(r.stage) = 0
    /\ \A d \in Docs :
          Cardinality({id \in WorkflowIds :
                          /\ runs[id].document_id = d
                          /\ runs[id].pc = "activity"
                          /\ runs[id].inflight}) <= 1

\* C28 witness: the second attempt of a stage activity of one document is in
\* flight while the run of another document has a call in flight.
C28_Witness ==
    \E id1, id2 \in RunIds :
        /\ runs[id1].document_id # runs[id2].document_id
        /\ runs[id1].pc = "activity"
        /\ runs[id1].inflight
        /\ runs[id1].attempt = 2
        /\ runs[id2].inflight

(***************************************************************************)
(* The service layer on its own: tenants are created and deleted through   *)
(* TenantService while the activities of the worker take their document    *)
(* service from the ServiceFactory singleton.  sm is the last call made.   *)
(***************************************************************************)
InitFactory ==
    /\ client = FALSE
    /\ store = [t \in TenantIds |-> [d \in Docs |-> None]]
    /\ runs = [id \in WorkflowIds |-> NoRun]
    /\ faults = 0
    /\ rejected = FALSE
    /\ sm = NoCall
    /\ svc = ServiceFactory({})

\* TenantService.create_tenant(tenant_id, name, ...) by the tenant
\* administration.
CallCreateTenant(tenant_id, fields) ==
    LET done == create_tenant(svc.tenants, Tenant(tenant_id, fields)) IN
    /\ svc' = [svc EXCEPT !.tenants = done.tenants]
    /\ sm' = [op |-> "create_tenant", args |-> <<tenant_id, fields>>,
              out |-> Some(done.out)]
    /\ UNCHANGED <<client, store, runs, faults, rejected>>

\* TenantService.delete_tenant(tenant_id) by the tenant administration.
CallDeleteTenant(tenant_id) ==
    LET done == delete_tenant(svc.tenants, tenant_id) IN
    /\ svc' = [svc EXCEPT !.tenants = done.tenants]
    /\ sm' = [op |-> "delete_tenant", args |-> <<tenant_id>>,
              out |-> Some(done.out)]
    /\ UNCHANGED <<client, store, runs, faults, rejected>>

\* self.service_factory.get_document_service(tenant_id) in an activity.
CallGetDocumentService(tenant_id) ==
    LET done == get_document_service(svc, tenant_id) IN
    /\ svc' = done.svc
    /\ sm' = [op |-> "get_document_service", args |-> <<tenant_id>>,
              out |-> Some(done.out)]
    /\ UNCHANGED <<client, store, runs, faults, rejected>>

\* TenantService.tenant_exists(tenant_id).
CallTenantExists(tenant_id) ==
    /\ sm' = [op |-> "tenant_exists", args |-> <<tenant_id>>,
              out |-> Some(Returns(tenant_exists(svc.tenants, tenant_id)))]
    /\ UNCHANGED <<client, store, runs, faults, rejected, svc>>

\* TenantService.get_tenant(tenant_id).
CallGetTenant(tenant_id) ==
    /\ sm' = [op |-> "get_tenant", args |-> <<tenant_id>>,
              out |-> Some(Returns(get_tenant_by_id(svc.tenants,
                                                     tenant_id)))]
    /\ UNCHANGED <<client, store, runs, faults, rejected, svc>>

NextFactory ==
    \/ \E t \in TenantIds, f \in TenantFields : CallCreateTenant(t, f)
    \/ \E t \in TenantIds : CallDeleteTenant(t)
    \/ \E t \in TenantIds : CallGetDocumentService(t)
    \/ \E t \in TenantIds : CallTenantExists(t)
    \/ \E t \in TenantIds : CallGetTenant(t)

SpecFactory == InitFactory /\ [][NextFactory]_vars

\* C29: the core never drops or replaces a cached DocumentService: an entry
\* of the cache stays what it is in every step, a call for a tenant with an
\* entry returns that entry, and a call for a tenant with neither an entry
\* nor a row in the tenants table raises ValueError and leaves the cache as
\* it was.
C29_CacheNeverInvalidated ==
    /\ [][\A t \in TenantIds :
             svc.document_services[t] # None =>
                 svc'.document_services[t] = svc.document_services[t]]_vars
    /\ [][\A t \in TenantIds :
             (/\ sm'.op = "get_document_service"
              /\ sm'.args = <<t>>
              /\ sm' # sm \/ svc' # svc) =>
                 IF svc.document_services[t] # None
                 THEN /\ sm'.out[1].raised = ""
                      /\ sm'.out[1].value = svc.document_services[t][1]
                 ELSE IF get_tenant_by_id(svc.tenants, t) = None
                 THEN /\ sm'.out[1].raised = "ValueError"
                      /\ svc'.document_services = svc.document_services
                 ELSE /\ sm'.out[1].raised = ""
                      /\ svc'.document_services[t] = Some(sm'.out[1].value)
                      /\ \A u \in TenantIds :
                            svc.document_services[u] # Some(sm'.out[1].value)]_vars

\* A DocumentService is cached for a tenant whose row was deleted since, and
\* the last call, for a tenant without row or entry, raised ValueError.
C29_Witness ==
    /\ sm.op = "get_document_service"
    /\ sm.out[1].raised = "ValueError"
    /\ \E t \in TenantIds :
          /\ svc.document_services[t] # None
          /\ get_tenant_by_id(svc.tenants, t) = None

\* C30: create_tenant for an id that is in the tenants table raises
\* ValueError saying 'already exists' and leaves the table, and with it the
\* name, status and Pinecone configuration of the existing tenant, as it
\* was; and the table never holds two rows of one id.
C30_DuplicateTenantRejected ==
    /\ [][\A t \in TenantIds :
             (/\ sm'.op = "create_tenant"
              /\ sm'.args[1] = t
              /\ sm' # sm \/ svc' # svc
              /\ get_tenant_by_id(svc.tenants, t) # None) =>
                 /\ sm'.out[1].raised = "ValueError"
                 /\ sm'.out[1].message = <<"already", "exists">>
                 /\ svc'.tenants = svc.tenants]_vars
    /\ [](\A row, other \in svc.tenants : row.id = other.id => row = other)

\* create_tenant was refused for a tenant whose row differs from the one
\* the call asked for in name, status and index name.
C30_Witness ==
    /\ sm.op = "create_tenant"
    /\ sm.out[1].raised = "ValueError"
    /\ \E row \in svc.tenants :
          /\ row.id = sm.args[1]
          /\ row.name # sm.args[2].name
          /\ row.status # sm.args[2].status
          /\ row.pinecone_index_name # sm.args[2].pinecone_index_name

\* C31: delete_tenant of a tenant in the table returns True and removes its
\* row and no other; of a tenant not in the table it returns False and
\* changes nothing.  From then on tenant_exists answers False and get_tenant
\* answers None for the id, for they answer from the table, and the id gets
\* a row again by a create_tenant for that id only.
C31_DeletedTenantIsGone ==
    /\ [][\A t \in TenantIds :
             (/\ sm'.op = "delete_tenant"
              /\ sm'.args = <<t>>
              /\ sm' # sm \/ svc' # svc) =>
                 IF get_tenant_by_id(svc.tenants, t) # None
                 THEN /\ sm'.out[1] = Returns(TRUE)
                      /\ svc'.tenants = {row \in svc.tenants : row.id # t}
                 ELSE /\ sm'.out[1] = Returns(FALSE)
                      /\ svc'.tenants = svc.tenants]_vars
    /\ [][\A t \in TenantIds :
             (/\ get_tenant_by_id(svc.tenants, t) = None
              /\ get_tenant_by_id(svc'.tenants, t) # None) =>
                 /\ sm'.op = "create_tenant"
                 /\ sm'.args[1] = t
                 /\ sm'.out[1].raised = ""]_vars
    /\ [](\A t \in TenantIds :
             /\ (sm.op = "tenant_exists" /\ sm.args = <<t>>) =>
                    sm.out[1] = Returns(\E row \in svc.tenants : row.id = t)
             /\ (sm.op = "get_tenant" /\ sm.args = <<t>>) =>
                    IF \E row \in svc.tenants : row.id = t
                    THEN /\ sm.out[1].value # None
                         /\ sm.out[1].value[1] \in svc.tenants
                         /\ sm.out[1].value[1].id = t
                    ELSE sm.out[1] = Returns(None))

\* tenant_exists answered False for a tenant that was in the table, as its
\* cached DocumentService tells, and was deleted, while the other tenant is
\* still there.
C31_Witness ==
    /\ sm.op = "tenant_exists"
    /\ sm.args = <<"t1">>
    /\ sm.out[1] = Returns(FALSE)
    /\ svc.document_services["t1"] # None
    /\ \E row \in svc.tenants : row.id = "t2"

(***************************************************************************)
(* Updates of the tenants table: from any table the administration can     *)
(* have created, one update_tenant call with any keyword arguments.        *)
(***************************************************************************)
\* The tables create_tenant and delete_tenant can leave: for each id no row
\* or one row.
TenantTables ==
    {UNION {rows[t] : t \in TenantIds} :
         rows \in {r \in [TenantIds ->
                             {{}} \cup {{row} : row \in TenantRows}] :
                      \A t \in TenantIds : \A row \in r[t] : row.id = t}}

InitTenants ==
    /\ client = FALSE
    /\ store = [t \in TenantIds |-> [d \in Docs |-> None]]
    /\ runs = [id \in WorkflowIds |-> NoRun]
    /\ faults = 0
    /\ rejected = FALSE
    /\ \E t \in TenantIds, kwargs \in UpdateKwargs :
          sm = [op |-> "update_tenant", args |-> <<t, kwargs>>, out |-> None]
    /\ \E tenants \in TenantTables : svc = ServiceFactory(tenants)

\* TenantService.update_tenant(tenant_id, **kwargs).
CallUpdateTenant ==
    /\ sm.op = "update_tenant"
    /\ sm.out = None
    /\ LET done == update_tenant(svc.tenants, sm.args[1], sm.args[2]) IN
          /\ svc' = [svc EXCEPT !.tenants = done.tenants]
          /\ sm' = [sm EXCEPT !.out = Some(done.out)]
    /\ UNCHANGED <<client, store, runs, faults, rejected>>

NextTenants == CallUpdateTenant

SpecTenants == InitTenants /\ [][NextTenants]_vars

\* A keyword argument of the call fails its validation, or the id is passed.
UpdateRefused(tenant, kwargs) ==
    \/ "id" \in DOMAIN kwargs
    \/ "name" \in DOMAIN kwargs /\ ~validate_name(kwargs["name"])
    \/ "status" \in DOMAIN kwargs /\ ~validate_status(kwargs["status"])
    \/ /\ DOMAIN kwargs \cap {"pinecone_index_name",
                              "pinecone_environment"} # {}
       /\ ~validate_pinecone_config(
              kwargs_get(kwargs, "pinecone_index_name",
                         tenant.pinecone_index_name),
              kwargs_get(kwargs, "pinecone_environment",
                         tenant.pinecone_environment))

\* C32: update_tenant of a tenant in the table leaves the rows of the other
\* tenants and the ids in the table as they were; when the id is passed or
\* a passed field fails its validation it raises and the table is as
\* before; otherwise every field passed has the value passed and every
\* other field the value it had.
C32_UpdateChangesFieldsPassed ==
    [][(sm.op = "update_tenant" /\ sm.out = None /\ sm'.out # None) =>
          LET t == sm.args[1]
              kwargs == sm.args[2]
              before == get_tenant_by_id(svc.tenants, t)
              after == get_tenant_by_id(svc'.tenants, t)
          IN /\ {row \in svc'.tenants : row.id # t} =
                    {row \in svc.tenants : row.id # t}
             /\ {row.id : row \in svc'.tenants} =
                    {row.id : row \in svc.tenants}
             /\ \A row, other \in svc'.tenants :
                    row.id = other.id => row = other
             /\ before # None =>
                    IF UpdateRefused(before[1], kwargs)
                    THEN /\ sm'.out[1].raised = "ValueError"
                         /\ svc'.tenants = svc.tenants
                    ELSE /\ sm'.out[1] = Returns(after)
                         /\ after[1].id = t
                         /\ \A field \in DOMAIN before[1] \ {"id"} :
                               after[1][field] =
                                   kwargs_get(kwargs, field,
                                              before[1][field])]_vars

\* An update that passed a good name and a bad status was refused, and the
\* tenant has the name it was created with.
C32_Witness ==
    /\ sm.op = "update_tenant"
    /\ sm.out # None
    /\ sm.out[1].raised = "ValueError"
    /\ DOMAIN sm.args[2] = {"name", "status"}
    /\ sm.args[2]["name"] = "Gamma"
    /\ sm.args[2]["status"] = "invalid-status"
    /\ \E row \in svc.tenants : row.id = sm.args[1] /\ row.name = "Beta"

(***************************************************************************)
(* The blob storage on its own: files are uploaded, downloaded and deleted *)
(* through BlobService.  sm is the last call made.                         *)
(***************************************************************************)
InitBlob ==
    /\ client = FALSE
    /\ store = [t \in TenantIds |-> [d \in Docs |-> None]]
    /\ runs = [id \in WorkflowIds |-> NoRun]
    /\ faults = 0
    /\ rejected = FALSE
    /\ sm = NoCall
    /\ svc = ServiceFactory({})

CallUploadFile(file_path, tenant_id, project_id, blob_name) ==
    LET done == upload_file(svc.blobs, file_path, tenant_id, project_id,
                            blob_name) IN
    /\ svc' = [svc EXCEPT !.blobs = done.blobs]
    /\ sm' = [op |-> "upload_file",
              args |-> <<file_path, tenant_id, project_id, blob_name>>,
              out |-> Some(done.out)]
    /\ UNCHANGED <<client, store, runs, faults, rejected>>

CallDownloadFile(tenant_id, project_id, blob_name) ==
    /\ sm' = [op |-> "download_file",
              args |-> <<tenant_id, project_id, blob_name>>,
              out |-> Some(download_file(svc.blobs, tenant_id, project_id,
                                         blob_name))]
    /\ UNCHANGED <<client, store, runs, faults, rejected, svc>>

CallDeleteFile(tenant_id, project_id, blob_name) ==
    LET done == delete_file(svc.blobs, tenant_id, project_id, blob_name) IN
    /\ svc' = [svc EXCEPT !.blobs = done.blobs]
    /\ sm' = [op |-> "delete_file",
              args |-> <<tenant_id, project_id, blob_name>>,
              out |-> Some(done.out)]
    /\ UNCHANGED <<client, store, runs, faults, rejected>>

NextBlob ==
    \/ \E x \in DOMAIN Files, t \in BlobTenants, pr \in BlobProjects,
          b \in {None} \cup {Some(n) : n \in BlobNames} :
          CallUploadFile(x, t, pr, b)
    \/ \E t \in BlobTenants, pr \in BlobProjects, b \in BlobNames :
          CallDownloadFile(t, pr, b)
    \/ \E t \in BlobTenants, pr \in BlobProjects, b \in BlobNames :
          CallDeleteFile(t, pr, b)

SpecBlob == InitBlob /\ [][NextBlob]_vars

\* C33: when upload_file has returned, download_file for the same tenant,
\* project and name yields the content of the file uploaded; when
\* delete_file has returned, download_file for that name raises; and what
\* download_file yields for a tenant, project and name is changed by no
\* call but an upload or a delete for that tenant, project and name.
C33_BlobRoundTrip ==
    [][/\ (sm'.op = "upload_file" /\ sm'.out[1].raised = "") =>
              LET name == IF sm'.args[4] = None THEN basename(sm'.args[1])
                          ELSE sm'.args[4][1]
              IN /\ Files[sm'.args[1]] # None
                 /\ download_file(svc'.blobs, sm'.args[2], sm'.args[3], name)
                        = Returns(Files[sm'.args[1]][1])
       /\ (sm'.op = "delete_file" /\ sm'.out[1].raised = "") =>
              download_file(svc'.blobs, sm'.args[1], sm'.args[2],
                            sm'.args[3]).raised # ""
       /\ \A t \in BlobTenants, pr \in BlobProjects, b \in BlobNames :
              download_file(svc'.blobs, t, pr, b)
                      # download_file(svc.blobs, t, pr, b) =>
                  /\ sm'.op \in {"upload_file", "delete_file"}
                  /\ sm'.op = "upload_file" =>
                        /\ <<sm'.args[2], sm'.args[3]>> = <<t, pr>>
                        /\ sm'.args[4] \in {None, Some(b)}
                  /\ sm'.op = "delete_file" => sm'.args = <<t, pr, b>>]_vars

\* C34: while a stage activity of a run is in flight, the document of the
\* run is stored in the entering state of that stage; and a run whose
\* entering write of a stage has failed has not invoked that stage's
\* activity.
C34_StageRunsInItsEnteringState ==
    \A id \in RunIds :
        LET r == runs[id] IN
        /\ (r.pc = "activity" /\ r.inflight) =>
              /\ store[r.tenant_id][r.document_id] # None
              /\ store[r.tenant_id][r.document_id][1].status =
                     EnteringState(r.stage)
        /\ (r.failed_call # None /\ r.failed_call[1].call = "enter_write") =>
              r.inv[r.failed_call[1].stage] = 0

\* C35: a run that has written FAILED has written it once and has no status
\* or failure write under way or ahead: the failure is recorded at the
\* point of failure and nothing is written after it.
C35_FailureRecordedOnce ==
    \A id \in RunIds :
        LET r == runs[id]
            failures == {k \in 1..Len(r.log) : r.log[k].to = FAILED}
        IN  failures # {} =>
                /\ Cardinality(failures) = 1
                /\ r.pc \notin WritePcs \cup FailurePcs

\* C36: a run that has ended by raising to its caller has left its document
\* stored FAILED with an error detail.
C36_ErrorEndsInFailedRecord ==
    \A id \in RunIds :
        LET r == runs[id] IN
        r.pc = "raised" =>
            /\ store[r.tenant_id][r.document_id] # None
            /\ store[r.tenant_id][r.document_id][1].status = FAILED
            /\ store[r.tenant_id][r.document_id][1].error_details # None

\* C37: the step name of a processing state leads back to that state,
\* get_retry_state(get_processing_step_for_state(P)) = P; and for each step
\* name the workflow records in an error detail, get_retry_state gives a
\* state that FAILED may go to.
C37_StepNameRoundTrip ==
    /\ (/\ sm.op = "step_round_trip"
        /\ sm.out # None
        /\ is_processing_state(sm.args[1])) =>
           sm.out[1] = Returns(Some(sm.args[1]))
    /\ (/\ sm.op = "get_retry_state"
        /\ sm.out # None
        /\ sm.args[1].type = "str"
        /\ sm.args[1].value \in RecordedSteps) =>
           /\ sm.out[1].raised = ""
           /\ sm.out[1].value # None
           /\ can_transition(FAILED, sm.out[1].value[1])

\* C38: whatever status a document is stored with, list_by_status accepts
\* that status as its filter and lists the document.
C38_StoredStatusCanBeListed ==
    \A t \in TenantIds, d \in Docs :
        store[t][d] # None =>
            LET listing == list_by_status(store[t],
                                          Some(store[t][d][1].status))
            IN  /\ listing.raised = ""
                /\ d \in listing.value

(***************************************************************************)
(* ChunkingService.chunk_text.  A text is a sequence of characters, of     *)
(* which " " is white space; the tokenizer counts one token a character.   *)
(* The text splitter is LangChain's: what it answers for a text is an      *)
(* input of the call.                                                      *)
(***************************************************************************)
MaxTextLen == 4

Texts == UNION {[1..n -> {"a", " "}] : n \in 0..MaxTextLen}

\* Config.CHUNK_SIZE
CHUNK_SIZE == getenv("CHUNK_SIZE", 400)

\* text.strip(): the text without its leading and trailing white space.
RECURSIVE strip_text(_)
strip_text(text) ==
    IF text = <<>> THEN text
    ELSE IF Head(text) = " " THEN strip_text(Tail(text))
    ELSE IF text[Len(text)] = " "
         THEN strip_text(SubSeq(text, 1, Len(text) - 1))
         ELSE text

\* ChunkingService._token_count: len(self.tokenizer.encode(text)).
token_count(text) == Len(text)

\* What text_splitter.split_text can answer: a list of up to two chunks,
\* or an exception.
SplitAnswers ==
    LET Chunks == {<<>>, <<" ">>, <<"a">>, <<"a", "a">>} IN
    {Returns(chunks) : chunks \in UNION {[1..n -> Chunks] : n \in 0..2}}
        \cup {Raises("Exception")}

\* The try block of chunk_text: split, then EmptyTextError when there is no
\* chunk or no chunk with content.
split_and_validate(split) ==
    LET keep(chunk) == strip_text(chunk) # <<>>
        \* [chunk for chunk in chunks if chunk.strip()]
        non_empty_chunks == SelectSeq(split.value, keep)
    IN  IF split.raised # "" THEN split
        ELSE IF split.value = <<>> THEN Raises("EmptyTextError")
        ELSE IF non_empty_chunks = <<>> THEN Raises("EmptyTextError")
        ELSE Returns(non_empty_chunks)

\* ChunkingService.chunk_text: EmptyTextError for a text without content;
\* the text itself as the only chunk when it has at most CHUNK_SIZE tokens;
\* else the chunks of the splitter that have content.  `except Exception`
\* around the try block turns every exception raised in it, the two
\* EmptyTextError of the validation included, into ChunkingError.
chunk_text(text, split) ==
    IF text = <<>> \/ strip_text(text) = <<>> THEN Raises("EmptyTextError")
    ELSE IF token_count(text) <= CHUNK_SIZE THEN Returns(<<text>>)
    ELSE LET tried == split_and_validate(split) IN
         IF tried.raised # "" THEN Raises("ChunkingError") ELSE tried

InitChunk ==
    /\ client = FALSE
    /\ store = [t \in TenantIds |-> [d \in Docs |-> None]]
    /\ runs = [id \in WorkflowIds |-> NoRun]
    /\ faults = 0
    /\ rejected = FALSE
    /\ \E text \in Texts, split \in SplitAnswers :
          sm = [op |-> "chunk_text", args |-> <<text, split>>, out |-> None]
    /\ svc = NoServices

\* chunking_service.chunk_text(text), the splitter answering sm.args[2].
CallChunkText ==
    /\ sm.op = "chunk_text"
    /\ sm.out = None
    /\ sm' = [sm EXCEPT !.out = Some(chunk_text(sm.args[1], sm.args[2]))]
    /\ UNCHANGED <<client, store, runs, faults, rejected, svc>>

NextChunk == CallChunkText

SpecChunk == InitChunk /\ [][NextChunk]_vars

\* C39: chunk_text raises EmptyTextError for a text that is empty or white
\* space only, and for a longer text whose split gives no chunk or only
\* chunks without content; it raises ChunkingError only when the splitter
\* itself failed; and when it returns, no chunk is empty and a text of at
\* most CHUNK_SIZE tokens is returned as its only chunk.
C39_ChunkTextErrors ==
    (sm.op = "chunk_text" /\ sm.out # None) =>
        LET text == sm.args[1]
            split == sm.args[2]
            out == sm.out[1]
            blank == text = <<>> \/ strip_text(text) = <<>>
            long == token_count(text) > CHUNK_SIZE
            nothing_split ==
                /\ ~blank
                /\ long
                /\ split.raised = ""
                /\ \A k \in 1..Len(split.value) :
                      strip_text(split.value[k]) = <<>>
        IN  /\ (blank \/ nothing_split) => out = Raises("EmptyTextError")
            /\ out.raised = "ChunkingError" =>
                  ~blank /\ long /\ split.raised # ""
            /\ out.raised = "" =>
                  /\ \A k \in 1..Len(out.value) : out.value[k] # <<>>
                  /\ ~long => out.value = <<text>>

====
